---- MODULE Spec2Model ----
(***************************************************************************)
(* Model of the workflow engine of gitbackup (core/workflow_logic.py).     *)
(*                                                                         *)
(* One workflow run (run_task_workflow, run_update_task_workflow or        *)
(* run_pull_workflow) is a sequential program; every external command it  *)
(* issues (git ..., pre/post shell command) is one step.  The outcome of a *)
(* command is chosen by the environment (the git binary, the shell), the   *)
(* control flow that follows is the code's.                                *)
(***************************************************************************)
EXTENDS Integers, Sequences, FiniteSets, TLC

VARIABLES
    wf,                     \* which workflow runs: "task", "update", "pull"
    args,                   \* command line: [folder, initialize]
    task,                   \* task configuration (SimpleNamespace)
    pc,                     \* position of the run in the workflow function
    result,                 \* return value: "none" (still running), "True", "False"
    cmds,                   \* commands issued so far, each with its success flag
    stashed,                \* local variable `stashed`
    pull_success,           \* local variable `pull_success`
    pop_success,            \* value returned by the last _pop_stashed_changes call
    repo_clean_after_pull,  \* local variable `repo_clean_after_pull`
    commit_made,            \* third component returned by the commit command
    dirExists,              \* file system: os.path.exists(repo_path)
    isRepo,                 \* file system: repo_path/.git is a directory
    remote,                 \* remote 'origin': "none", "same" (task's URL), "other"
    tree,                   \* working tree: pending entries, "M" tracked, "U" untracked,
                            \* "S" listed by status but not saved by stash
    stashList,              \* git stash list, newest first; each entry: [by, content]
    commits,                \* run_revert_commit_workflow: len(commits)
    selected_index          \* run_revert_commit_workflow: local variable `selected_index`

vars == <<wf, args, task, pc, result, cmds, stashed, pull_success, pop_success,
          repo_clean_after_pull, commit_made, dirExists, isRepo, remote, tree,
          stashList, commits, selected_index>>

----------------------------------------------------------------------------
(* Bounds *)

\* number of stash entries that may already exist when the run starts
MaxPreStash == 1

\* commits 'git log origin/<branch> -n5' lists for the revert workflow
MaxCommits == 2

\* invalid answers to the selection prompt of the revert workflow
MaxInvalid == 1

\* calls of initialize_repo on one path
MaxCalls == 2

----------------------------------------------------------------------------
(* Values *)

Workflows == {"task", "update", "pull"}

Folders == {"", "repo"}

\* entries 'git stash push --include-untracked' saves and 'git add .' stages
Stashable == {"M", "U"}

\* "S": an entry 'git status --porcelain' lists although stash saves nothing
\* of it and add stages nothing of it (modified content inside a submodule)
TreeEntries == Stashable \cup {"S"}

Trees == SUBSET Stashable \cup {{"S"}}

RemoteStates == {"none", "same", "other"}

TaskConfigs ==
    [folder : Folders,
     origin : BOOLEAN,                 \* origin URL non-empty
     pull_before_command : BOOLEAN,
     push_after_command : BOOLEAN,
     pre_command : BOOLEAN,            \* pre_command non-empty
     post_command : BOOLEAN]           \* post_command non-empty

ArgSets == [folder : Folders, initialize : BOOLEAN]

OldStash == [by |-> "earlier", content |-> {"M"}]

RECURSIVE OldStashes(_)
OldStashes(n) == IF n = 0 THEN <<>> ELSE <<OldStash>> \o OldStashes(n - 1)

\* `repo_path = args.folder if args.folder else task.folder`
repo_path == IF args.folder # "" THEN args.folder ELSE task.folder

\* control-flow outcomes of a step
Goto(p) == [pc |-> p, result |-> "none"]

Return(b) == [pc |-> "done", result |-> IF b THEN "True" ELSE "False"]

----------------------------------------------------------------------------
(* Command runner: classification of a finished subprocess *)

\* _execute_git_command for a command other than commit: check=True raises on a
\* non-zero exit code, every exception path returns success = False
GitSuccess(rc) == rc = 0

\* faulty variant: every non-zero exit of 'commit' is a failure
CommitResult_NonZeroIsFailure(rc, nothing) ==
    IF rc = 0
    THEN IF nothing THEN <<TRUE, FALSE>> ELSE <<TRUE, TRUE>>
    ELSE <<FALSE, FALSE>>

\* _execute_git_command for 'commit': <<success, commit_made>>.  `nothing` says
\* that the output holds one of the "nothing to commit" messages.
CommitResult(rc, nothing) ==
    IF rc = 0
    THEN IF nothing THEN <<TRUE, FALSE>> ELSE <<TRUE, TRUE>>
    ELSE IF nothing THEN <<TRUE, FALSE>> ELSE <<FALSE, FALSE>>

\* _stash_local_changes: the result of 'git stash push', whatever its output
\* says (`nothingSaved`: the output is "No local changes to save")
StashResult(rc, nothingSaved) == GitSuccess(rc)

\* faulty variant: every failed pop is reported as a conflict
PopFailureLog_AlwaysConflict(markers) == "git_stash_pop_failed_conflict"

\* _pop_stashed_changes: the message logged when 'git stash pop' failed
PopFailureLog(markers) ==
    IF markers THEN "git_stash_pop_failed_conflict"
    ELSE "git_stash_pop_failed_general"

\* _execute_command: success iff the shell command exits with 0
ShellSuccess(rc) == rc = 0

\* faulty variant: untracked ('??') lines are left out, as in
\* git_logic._check_for_unstaged_changes
HasChanges_IgnoresUntracked(t) == t \ {"U"} # {}

\* _check_for_changes on a successful status: stdout.strip() non-empty
HasChanges(t) == t # {}

----------------------------------------------------------------------------
(* Environment: what the git binary and the shell can answer *)

ExitCodes == {0, 1}

\* exit codes of 'git stash pop': with no entry it can only fail
PopExitCodes(list) == IF list = <<>> THEN {1} ELSE ExitCodes

\* outcomes of 'git stash pop': the output can hold conflict markers ("Merge
\* conflict", "Auto-merging", ...; git prints them on stdout) only when the
\* pop of an existing entry fails
PopOutcomes(list) ==
    {o \in [rc : PopExitCodes(list), markers : BOOLEAN] :
        o.markers => (o.rc # 0 /\ list # <<>>)}

\* the working tree after 'git stash pop': the entry's content is back on
\* success, unmerged entries are left by a conflict, nothing changes otherwise
TreeAfterPop(t, list, o) ==
    IF o.rc = 0 THEN t \cup Head(list).content
    ELSE IF o.markers THEN t \cup {"M"}
    ELSE t

\* outcomes of 'git commit' after 'git add .': a commit when something is
\* staged, the "nothing to commit" message (exit 1, or 0) when nothing is, or
\* a genuine error (hook, identity, lock)
CommitOutcomes(t) ==
    IF t \cap Stashable = {}
    THEN {[rc |-> 1, nothing |-> TRUE], [rc |-> 0, nothing |-> TRUE],
          [rc |-> 1, nothing |-> FALSE]}
    ELSE {[rc |-> 0, nothing |-> FALSE], [rc |-> 1, nothing |-> FALSE]}

----------------------------------------------------------------------------
(* Control flow of the workflows: where a run goes after each step *)

\* run_task_workflow lines 567-575; run_update_task_workflow line 766
EnterCommandPhase(w, t) ==
    IF w = "task" /\ t.pre_command THEN Goto("pre_command") ELSE Goto("add")

\* faulty variant: run_update honours task.pull_before_command as run_task does
AfterBranchReady_UpdateHonoursFlag(w, t) ==
    IF w \in {"task", "update"} /\ ~t.pull_before_command
    THEN EnterCommandPhase(w, t)
    ELSE Goto("status_before")

\* after "git_on_branch": run_task pulls only if task.pull_before_command,
\* run_update and run_pull always do
AfterBranchReady(w, t) ==
    IF w = "task" /\ ~t.pull_before_command
    THEN EnterCommandPhase(w, t)
    ELSE Goto("status_before")

\* faulty variant: every workflow initialises a missing repository when asked
AfterStart_AllInitialize(w, a, t, exists, created, repo) ==
    IF ~exists /\ ~created THEN Return(FALSE)
    ELSE IF ~repo
         THEN IF a.initialize THEN Goto("init") ELSE Return(FALSE)
         ELSE IF t.origin THEN Goto("remote_v") ELSE Goto("rev_parse")

\* start of the workflow function: directory and repository checks
AfterStart(w, a, t, exists, created, repo) ==
    IF w = "task"
    THEN IF ~exists /\ ~created THEN Return(FALSE)
         ELSE IF ~repo
              THEN IF a.initialize THEN Goto("init") ELSE Return(FALSE)
              ELSE IF t.origin THEN Goto("remote_v") ELSE Goto("rev_parse")
    ELSE IF ~exists THEN Return(FALSE)
         ELSE IF ~repo THEN Return(FALSE)
         ELSE IF t.origin THEN Goto("remote_v") ELSE Goto("rev_parse")

\* after 'git init'
AfterInit(t, ok) ==
    IF ~ok THEN Return(FALSE)
    ELSE IF t.origin THEN Goto("remote_add") ELSE Goto("rev_parse")

\* after 'git remote -v': is 'remote add origin' needed
AfterRemoteV(w, ok, r) ==
    IF w = "pull"
    THEN IF ~ok \/ r # "same" THEN Goto("remote_add") ELSE Goto("rev_parse")
    ELSE IF ~ok THEN Return(FALSE)
         ELSE IF r # "same" THEN Goto("remote_add") ELSE Goto("rev_parse")

AfterRemoteAdd(ok) == IF ok THEN Goto("rev_parse") ELSE Return(FALSE)

AfterRevParse(local_branch_exists) ==
    IF local_branch_exists THEN Goto("checkout") ELSE Goto("ls_remote")

\* faulty variant: a branch found on the remote is created anew all the same
AfterLsRemote_AlwaysNew(remote_branch_exists) == Goto("checkout_b")

AfterLsRemote(remote_branch_exists) ==
    IF remote_branch_exists THEN Goto("checkout_track") ELSE Goto("checkout_b")

AfterCheckout(w, t, ok) == IF ok THEN AfterBranchReady(w, t) ELSE Return(FALSE)

AfterCheckoutNew(w, t, ok) ==
    IF ~ok THEN Return(FALSE)
    ELSE IF t.origin THEN Goto("push_u") ELSE AfterBranchReady(w, t)

\* faulty variant: a failed 'push -u' of a new branch aborts the workflow
AfterPushUpstream_Fatal(w, t, ok) ==
    IF ok THEN AfterBranchReady(w, t) ELSE Return(FALSE)

\* a failed 'push -u' of a new branch is only a warning
AfterPushUpstream(w, t, ok) == AfterBranchReady(w, t)

\* faulty variant: the pull is attempted without stashing the pending changes
AfterStatusBefore_NeverStashes(ok, has_local_changes) ==
    IF ~ok THEN Return(FALSE) ELSE Goto("pull")

\* after the status check that precedes the pull
AfterStatusBefore(ok, has_local_changes) ==
    IF ~ok THEN Return(FALSE)
    ELSE IF has_local_changes THEN Goto("stash_push") ELSE Goto("pull")

\* faulty variant: the pull is attempted although the stash failed
AfterStashPush_IgnoresFailure(ok) == Goto("pull")

AfterStashPush(ok) == IF ok THEN Goto("pull") ELSE Return(FALSE)

\* faulty variant: run_pull goes on to the re-check and the staging steps
AfterPullAndPop_PullGoesOn(w) == Goto("status_after")

\* after stash pop (or directly after the pull when nothing was stashed)
AfterPullAndPop(w) == IF w = "pull" THEN Return(TRUE) ELSE Goto("status_after")

\* faulty variant: a failed pull returns without restoring the stash
AfterPull_NoPopOnFailure(w, ok, st) ==
    IF ~ok THEN Return(FALSE)
    ELSE IF st THEN Goto("stash_list") ELSE AfterPullAndPop(w)

\* after 'git pull origin <branch>'
AfterPull(w, ok, st) ==
    IF ~ok
    THEN IF st THEN Goto("stash_list") ELSE Return(FALSE)
    ELSE IF st THEN Goto("stash_list") ELSE AfterPullAndPop(w)

\* faulty variant: the pop is attempted whatever 'git stash list' printed
AfterStashList_PopsAnyway(w, ok, empty, pulled) == Goto("stash_pop")

\* _pop_stashed_changes after 'git stash list'
AfterStashList(w, ok, empty, pulled) ==
    IF ~ok \/ empty
    THEN IF pulled THEN AfterPullAndPop(w) ELSE Return(FALSE)
    ELSE Goto("stash_pop")

\* faulty variant: a failed pop aborts the workflow
AfterStashPop_Fatal(w, ok, pulled) ==
    IF pulled /\ ok THEN AfterPullAndPop(w) ELSE Return(FALSE)

\* return of _pop_stashed_changes to the workflow; a failed pop is a warning
AfterStashPop(w, ok, pulled) ==
    IF pulled THEN AfterPullAndPop(w) ELSE Return(FALSE)

\* faulty variant: the clean re-check does not short-circuit the workflow
AfterStatusAfter_NoShortCircuit(w, t, ok, has_changes) ==
    IF ~ok THEN Return(FALSE) ELSE EnterCommandPhase(w, t)

\* the status check made after pull and pop
AfterStatusAfter(w, t, ok, has_changes) ==
    IF ~ok THEN Return(FALSE)
    ELSE IF ~has_changes THEN Return(TRUE)
    ELSE EnterCommandPhase(w, t)

\* faulty variant: a failed pre-command is only a warning
AfterPreCommand_Warning(ok) == Goto("add")

AfterPreCommand(ok) == IF ok THEN Goto("add") ELSE Return(FALSE)

\* faulty variant: the commit is attempted although 'git add' failed
AfterAdd_IgnoresFailure(ok) == Goto("commit")

AfterAdd(ok) == IF ok THEN Goto("commit") ELSE Return(FALSE)

\* after the push step (executed or skipped): post-command or completion
AfterPushStep(w, t) ==
    IF w = "task" /\ t.post_command THEN Goto("post_command") ELSE Return(TRUE)

\* faulty variant: the push does not depend on commit_made
PushWanted_IgnoresCommitMade(t, made) == t.push_after_command

\* `if task.push_after_command:` / `if commit_made:`
PushWanted(t, made) == t.push_after_command /\ made

AfterCommit(w, t, success, made) ==
    IF ~success THEN Return(FALSE)
    ELSE IF PushWanted(t, made) THEN Goto("push") ELSE AfterPushStep(w, t)

\* variant: a failed push is only a warning, the run goes on
AfterPush_Warning(w, t, ok) == AfterPushStep(w, t)

\* `if not push_success: return False`
AfterPush(w, t, ok) == IF ok THEN AfterPushStep(w, t) ELSE Return(FALSE)

AfterPostCommand(ok) == Return(ok)

----------------------------------------------------------------------------
(* Initial state: a workflow is about to run on some repository *)

Init ==
    /\ wf \in Workflows
    /\ args \in ArgSets
    /\ task \in TaskConfigs
    /\ pc = "start"
    /\ result = "none"
    /\ cmds = <<>>
    /\ stashed = FALSE
    /\ pull_success = FALSE
    /\ pop_success = TRUE
    /\ repo_clean_after_pull = FALSE
    /\ commit_made = FALSE
    /\ dirExists \in BOOLEAN
    /\ isRepo \in BOOLEAN
    /\ remote \in RemoteStates
    /\ tree \in Trees
    /\ \E n \in 0..MaxPreStash : stashList = OldStashes(n)
    /\ commits = 0
    /\ selected_index = -1
    \* the file system is consistent: os.path.exists("") is False, a
    \* repository is a directory, remotes, pending changes and stash entries
    \* live in a repository
    /\ dirExists => repo_path # ""
    /\ isRepo => dirExists
    /\ ~isRepo => remote = "none" /\ tree = {} /\ stashList = <<>>
    \* runs that differ only in a value no step reads are taken once: both
    \* folders name the same path, so the folder is given on the command line
    \* or by the task; the remote is read ('remote -v', 'remote add') only
    \* when the task has an origin
    /\ args.folder = "" \/ task.folder = ""
    /\ ~task.origin => remote = "none"

----------------------------------------------------------------------------
(* Steps *)

\* take the control-flow outcome `next`
Jump(next) == pc' = next.pc /\ result' = next.result

\* record that command c was issued, whether it succeeded and, for the
\* commands whose output the code reads, what the output said (status: pending
\* entries listed; stash list: entries listed; rev-parse and branch --list:
\* the branch exists locally; ls-remote: branch listed;
\* commit: a commit was made; stash push: something was saved), its exit code
\* and whether the output held a "nothing to commit" message (stash pop and
\* cherry-pick: the output held conflict markers, also when the command
\* failed).  `tree` is the working tree the command found, `log` the key of
\* the message the code logged on the command's failure, `input` what the
\* user typed at a prompt.
Record(c, rc, ok, out, nothing) ==
    [cmd |-> c, rc |-> rc, ok |-> ok, out |-> out, nothing |-> nothing,
     tree |-> tree, log |-> {}, input |-> ""]

\* a command other than commit: it succeeded iff it exited with 0
Issue(c, ok, out) ==
    cmds' = Append(cmds, Record(c, IF ok THEN 0 ELSE 1, ok, ok /\ out, FALSE))

\* 'git stash pop' with outcome o, and the message lg logged on it
IssuePop(o, ok, lg) ==
    cmds' = Append(cmds, [Record("stash pop", o.rc, ok, o.markers, FALSE)
                              EXCEPT !.log = IF ok THEN {} ELSE {lg}])

\* faulty variant: os.makedirs can succeed on the empty path
MakedirsOutcomes_EmptyPathCreated(w, path, exists) ==
    IF w = "task" /\ ~exists THEN BOOLEAN ELSE {FALSE}

\* os.makedirs(repo_path, exist_ok=True) in run_task_workflow: raises on the
\* empty path, may fail otherwise; the other workflows never create it
MakedirsOutcomes(w, path, exists) ==
    IF w = "task" /\ ~exists
    THEN IF path = "" THEN {FALSE} ELSE BOOLEAN
    ELSE {FALSE}

Start ==
    /\ pc = "start"
    /\ wf \in Workflows
    /\ \E created \in MakedirsOutcomes(wf, repo_path, dirExists) :
         /\ dirExists' = (dirExists \/ created)
         /\ Jump(AfterStart(wf, args, task, dirExists, created, isRepo))
    /\ UNCHANGED <<wf, args, task, commits, selected_index, cmds, stashed, pull_success, pop_success,
                   repo_clean_after_pull, commit_made, isRepo, remote, tree,
                   stashList>>

GitInit ==
    /\ pc = "init"
    /\ \E rc \in ExitCodes :
         /\ Issue("init", GitSuccess(rc), FALSE)
         /\ isRepo' = GitSuccess(rc)
         /\ Jump(AfterInit(task, GitSuccess(rc)))
    /\ UNCHANGED <<wf, args, task, commits, selected_index, stashed, pull_success, pop_success,
                   repo_clean_after_pull, commit_made, dirExists, remote, tree,
                   stashList>>

RemoteV ==
    /\ pc = "remote_v"
    /\ \E rc \in ExitCodes :
         /\ Issue("remote -v", GitSuccess(rc), FALSE)
         /\ Jump(AfterRemoteV(wf, GitSuccess(rc), remote))
    /\ UNCHANGED <<wf, args, task, commits, selected_index, stashed, pull_success, pop_success,
                   repo_clean_after_pull, commit_made, dirExists, isRepo,
                   remote, tree, stashList>>

\* 'git remote add origin <url>' fails when a remote 'origin' exists
RemoteAdd ==
    /\ pc = "remote_add"
    /\ \E rc \in IF remote = "none" THEN ExitCodes ELSE {1} :
         /\ Issue("remote add", GitSuccess(rc), FALSE)
         /\ remote' = IF GitSuccess(rc) THEN "same" ELSE remote
         /\ Jump(AfterRemoteAdd(GitSuccess(rc)))
    /\ UNCHANGED <<wf, args, task, commits, selected_index, stashed, pull_success, pop_success,
                   repo_clean_after_pull, commit_made, dirExists, isRepo, tree,
                   stashList>>

\* 'git rev-parse --verify <branch>': success iff the branch exists locally
RevParse ==
    /\ pc = "rev_parse"
    /\ \E rc \in ExitCodes :
         /\ Issue("rev-parse", GitSuccess(rc), TRUE)
         /\ Jump(AfterRevParse(GitSuccess(rc)))
    /\ UNCHANGED <<wf, args, task, commits, selected_index, stashed, pull_success, pop_success,
                   repo_clean_after_pull, commit_made, dirExists, isRepo,
                   remote, tree, stashList>>

Checkout ==
    /\ pc = "checkout"
    /\ \E rc \in ExitCodes :
         /\ Issue("checkout", GitSuccess(rc), FALSE)
         /\ Jump(AfterCheckout(wf, task, GitSuccess(rc)))
    /\ UNCHANGED <<wf, args, task, commits, selected_index, stashed, pull_success, pop_success,
                   repo_clean_after_pull, commit_made, dirExists, isRepo,
                   remote, tree, stashList>>

\* 'git ls-remote --heads origin <branch>': the branch is on the remote iff
\* the command succeeds and lists refs/heads/<branch>
LsRemote ==
    /\ pc = "ls_remote"
    /\ \E rc \in ExitCodes, listed \in BOOLEAN :
         /\ Issue("ls-remote", GitSuccess(rc), listed)
         /\ Jump(AfterLsRemote(GitSuccess(rc) /\ listed))
    /\ UNCHANGED <<wf, args, task, commits, selected_index, stashed, pull_success, pop_success,
                   repo_clean_after_pull, commit_made, dirExists, isRepo,
                   remote, tree, stashList>>

CheckoutTrack ==
    /\ pc = "checkout_track"
    /\ \E rc \in ExitCodes :
         /\ Issue("checkout --track", GitSuccess(rc), FALSE)
         /\ Jump(AfterCheckout(wf, task, GitSuccess(rc)))
    /\ UNCHANGED <<wf, args, task, commits, selected_index, stashed, pull_success, pop_success,
                   repo_clean_after_pull, commit_made, dirExists, isRepo,
                   remote, tree, stashList>>

CheckoutNew ==
    /\ pc = "checkout_b"
    /\ \E rc \in ExitCodes :
         /\ Issue("checkout -b", GitSuccess(rc), FALSE)
         /\ Jump(AfterCheckoutNew(wf, task, GitSuccess(rc)))
    /\ UNCHANGED <<wf, args, task, commits, selected_index, stashed, pull_success, pop_success,
                   repo_clean_after_pull, commit_made, dirExists, isRepo,
                   remote, tree, stashList>>

PushUpstream ==
    /\ pc = "push_u"
    /\ \E rc \in ExitCodes :
         /\ Issue("push -u", GitSuccess(rc), FALSE)
         /\ Jump(AfterPushUpstream(wf, task, GitSuccess(rc)))
    /\ UNCHANGED <<wf, args, task, commits, selected_index, stashed, pull_success, pop_success,
                   repo_clean_after_pull, commit_made, dirExists, isRepo,
                   remote, tree, stashList>>

\* _check_for_changes before the pull ('git status --porcelain')
StatusBefore ==
    /\ pc = "status_before"
    /\ \E rc \in ExitCodes :
         /\ Issue("status", GitSuccess(rc), HasChanges(tree))
         /\ Jump(AfterStatusBefore(GitSuccess(rc), HasChanges(tree)))
    /\ stashed' = FALSE
    /\ UNCHANGED <<wf, args, task, commits, selected_index, pull_success, pop_success,
                   repo_clean_after_pull, commit_made, dirExists, isRepo,
                   remote, tree, stashList>>

\* _stash_local_changes ('git stash push --include-untracked -m ...'): on
\* success the pending entries, untracked ones included, move to a new stash
\* entry; with nothing to save git exits with 0, prints "No local changes to
\* save" and creates no entry
StashPush ==
    /\ pc = "stash_push"
    /\ \E rc \in ExitCodes :
         LET saved == tree \cap Stashable
             ok == StashResult(rc, saved = {}) IN
         /\ Issue("stash push", ok, saved # {})
         /\ stashed' = ok
         /\ stashList' = IF rc = 0 /\ saved # {}
                         THEN <<[by |-> "run", content |-> saved]>> \o stashList
                         ELSE stashList
         /\ tree' = IF rc = 0 THEN tree \ saved ELSE tree
         /\ Jump(AfterStashPush(ok))
    /\ UNCHANGED <<wf, args, task, commits, selected_index, pull_success, pop_success,
                   repo_clean_after_pull, commit_made, dirExists, isRepo,
                   remote>>

\* 'git pull origin <branch>': a successful pull leaves the tree as it was, a
\* failed one may leave unmerged (tracked) entries behind
Pull ==
    /\ pc = "pull"
    /\ \E rc \in ExitCodes :
         /\ Issue("pull", GitSuccess(rc), FALSE)
         /\ pull_success' = GitSuccess(rc)
         /\ tree' \in IF GitSuccess(rc) THEN {tree} ELSE {tree, tree \cup {"M"}}
         /\ Jump(AfterPull(wf, GitSuccess(rc), stashed))
    /\ UNCHANGED <<wf, args, task, commits, selected_index, stashed, pop_success,
                   repo_clean_after_pull, commit_made, dirExists, isRepo,
                   remote, stashList>>

\* _pop_stashed_changes, first command: 'git stash list'
StashList ==
    /\ pc = "stash_list"
    /\ \E rc \in ExitCodes :
         /\ Issue("stash list", GitSuccess(rc), stashList # <<>>)
         /\ pop_success' = TRUE
         /\ Jump(AfterStashList(wf, GitSuccess(rc), stashList = <<>>, pull_success))
    /\ UNCHANGED <<wf, args, task, commits, selected_index, stashed, pull_success,
                   repo_clean_after_pull, commit_made, dirExists, isRepo,
                   remote, tree, stashList>>

\* _pop_stashed_changes, second command: 'git stash pop' applies and drops the
\* newest entry; when it fails the entry stays and conflicts may be left; on
\* an empty list it fails with "No stash entries found"
StashPop ==
    /\ pc = "stash_pop"
    /\ \E o \in PopOutcomes(stashList) :
         /\ IssuePop(o, GitSuccess(o.rc), PopFailureLog(o.markers))
         /\ pop_success' = GitSuccess(o.rc)
         /\ stashList' = IF GitSuccess(o.rc) THEN Tail(stashList) ELSE stashList
         /\ tree' = TreeAfterPop(tree, stashList, o)
         /\ Jump(AfterStashPop(wf, GitSuccess(o.rc), pull_success))
    /\ UNCHANGED <<wf, args, task, commits, selected_index, stashed, pull_success,
                   repo_clean_after_pull, commit_made, dirExists, isRepo,
                   remote>>

\* _check_for_changes after pull and pop
StatusAfter ==
    /\ pc = "status_after"
    /\ \E rc \in ExitCodes :
         /\ Issue("status", GitSuccess(rc), HasChanges(tree))
         /\ repo_clean_after_pull' = (GitSuccess(rc) /\ ~HasChanges(tree))
         /\ Jump(AfterStatusAfter(wf, task, GitSuccess(rc), HasChanges(tree)))
    /\ UNCHANGED <<wf, args, task, commits, selected_index, stashed, pull_success, pop_success,
                   commit_made, dirExists, isRepo, remote, tree, stashList>>

\* _execute_command(task.pre_command): an arbitrary shell command, it may
\* change the working tree in any way
PreCommand ==
    /\ pc = "pre_command"
    /\ \E rc \in ExitCodes :
         /\ Issue("pre_command", ShellSuccess(rc), FALSE)
         /\ Jump(AfterPreCommand(ShellSuccess(rc)))
    /\ tree' \in Trees
    /\ UNCHANGED <<wf, args, task, commits, selected_index, stashed, pull_success, pop_success,
                   repo_clean_after_pull, commit_made, dirExists, isRepo,
                   remote, stashList>>

\* 'git add .'
Add ==
    /\ pc = "add"
    /\ \E rc \in ExitCodes :
         /\ Issue("add", GitSuccess(rc), FALSE)
         /\ Jump(AfterAdd(GitSuccess(rc)))
    /\ UNCHANGED <<wf, args, task, commits, selected_index, stashed, pull_success, pop_success,
                   repo_clean_after_pull, commit_made, dirExists, isRepo,
                   remote, tree, stashList>>

\* 'git commit -m <message>'
Commit ==
    /\ pc = "commit"
    /\ \E o \in CommitOutcomes(tree) :
         LET res == CommitResult(o.rc, o.nothing) IN
         /\ cmds' = Append(cmds, Record("commit", o.rc, res[1], res[2], o.nothing))
         /\ commit_made' = res[2]
         /\ tree' = IF o.rc = 0 /\ ~o.nothing THEN tree \ Stashable ELSE tree
         /\ Jump(AfterCommit(wf, task, res[1], res[2]))
    /\ UNCHANGED <<wf, args, task, commits, selected_index, stashed, pull_success, pop_success,
                   repo_clean_after_pull, dirExists, isRepo, remote, stashList>>

\* 'git push origin <branch>'
Push ==
    /\ pc = "push"
    /\ \E rc \in ExitCodes :
         /\ Issue("push", GitSuccess(rc), FALSE)
         /\ Jump(AfterPush(wf, task, GitSuccess(rc)))
    /\ UNCHANGED <<wf, args, task, commits, selected_index, stashed, pull_success, pop_success,
                   repo_clean_after_pull, commit_made, dirExists, isRepo,
                   remote, tree, stashList>>

\* _execute_command(task.post_command)
PostCommand ==
    /\ pc = "post_command"
    /\ \E rc \in ExitCodes :
         /\ Issue("post_command", ShellSuccess(rc), FALSE)
         /\ Jump(AfterPostCommand(ShellSuccess(rc)))
    /\ UNCHANGED <<wf, args, task, commits, selected_index, stashed, pull_success, pop_success,
                   repo_clean_after_pull, commit_made, dirExists, isRepo,
                   remote, tree, stashList>>

Next ==
    \/ Start
    \/ GitInit
    \/ RemoteV
    \/ RemoteAdd
    \/ RevParse
    \/ Checkout
    \/ LsRemote
    \/ CheckoutTrack
    \/ CheckoutNew
    \/ PushUpstream
    \/ StatusBefore
    \/ StashPush
    \/ Pull
    \/ StashList
    \/ StashPop
    \/ StatusAfter
    \/ PreCommand
    \/ Add
    \/ Commit
    \/ Push
    \/ PostCommand

Spec == Init /\ [][Next]_vars

----------------------------------------------------------------------------
(* The repository operations of git_logic.py, each called on its own *)

LibFunctions ==
    {"checkout_or_create_branch", "stash_local_changes", "pop_stashed_changes"}

\* the functions take repo_path and origin_name ("origin" by default), no task
LibArgs == [folder |-> "repo", initialize |-> FALSE]

LibTask ==
    [folder |-> "repo", origin |-> TRUE, pull_before_command |-> FALSE,
     push_after_command |-> FALSE, pre_command |-> FALSE,
     post_command |-> FALSE]

\* the first command of each function
LibEntry(f) ==
    CASE f = "checkout_or_create_branch" -> "lib_fetch"
      [] f = "stash_local_changes" -> "lib_stash_push"
      [] f = "pop_stashed_changes" -> "lib_stash_list"

\* git_logic._execute_git_command for a command other than diff and revert:
\* check=False, success iff the exit code is 0
LibGitSuccess(rc) == rc = 0

\* `remote_branch_exists = bool(stdout_remote.strip())`: on failure the
\* returned text is stdout + "\n" + stderr, non-empty when git wrote an error
LibRemoteBranchExists(ok, listed, errText) == IF ok THEN listed ELSE errText

\* pop_stashed_changes: the message logged when 'git stash pop' failed
LibPopFailureLog(markers) ==
    IF markers THEN "git_stash_pop_failed_conflict" ELSE "git_stash_failed"

\* stash_local_changes: False on failure and on "No local changes to save"
LibStashResult(rc, nothingSaved) == LibGitSuccess(rc) /\ ~nothingSaved

\* `local_branch_exists = (branch_name in stdout_local)`, read from the
\* 'branch --list' just issued
local_branch_exists ==
    /\ cmds # <<>>
    /\ cmds[Len(cmds)].cmd = "branch --list"
    /\ cmds[Len(cmds)].out

\* checkout_or_create_branch after its three look-ups
AfterLibLsRemote(local, remote_branch_exists) ==
    IF local THEN Goto("lib_checkout")
    ELSE IF remote_branch_exists THEN Goto("lib_checkout_start")
    ELSE Goto("lib_checkout_b")

AfterLibCheckout(ok) == Return(ok)

AfterLibCheckoutNew(ok) == IF ok THEN Goto("lib_push_u") ELSE Return(FALSE)

\* a failed 'push -u' is only a warning
AfterLibPushUpstream(ok) == Return(TRUE)

\* pop_stashed_changes after 'git stash list'
AfterLibStashList(ok, empty) ==
    IF ~ok \/ empty THEN Return(TRUE) ELSE Goto("lib_stash_pop")

AfterLibStashPop(ok) == Return(ok)

InitLib ==
    /\ wf \in LibFunctions
    /\ args = LibArgs
    /\ task = LibTask
    /\ pc = LibEntry(wf)
    /\ result = "none"
    /\ cmds = <<>>
    /\ stashed = FALSE
    /\ pull_success = FALSE
    /\ pop_success = TRUE
    /\ repo_clean_after_pull = FALSE
    /\ commit_made = FALSE
    /\ dirExists = TRUE
    /\ isRepo = TRUE
    /\ remote \in {"none", "same"}
    /\ tree \in Trees
    /\ \E n \in 0..MaxPreStash : stashList = OldStashes(n)
    /\ commits = 0
    /\ selected_index = -1

LibFrame ==
    UNCHANGED <<wf, args, task, commits, selected_index, stashed, pull_success, pop_success,
                repo_clean_after_pull, commit_made, dirExists, isRepo, remote>>

\* 'git fetch <origin_name>': a failure is only a warning
LibFetch ==
    /\ pc = "lib_fetch"
    /\ \E rc \in ExitCodes :
         /\ Issue("fetch", LibGitSuccess(rc), FALSE)
         /\ Jump(Goto("lib_branch_list"))
    /\ LibFrame
    /\ UNCHANGED <<tree, stashList>>

\* 'git branch --list <branch_name>'
LibBranchList ==
    /\ pc = "lib_branch_list"
    /\ \E rc \in ExitCodes, listed \in BOOLEAN :
         /\ Issue("branch --list", LibGitSuccess(rc), listed)
         /\ Jump(Goto("lib_ls_remote"))
    /\ LibFrame
    /\ UNCHANGED <<tree, stashList>>

\* 'git ls-remote --heads <origin_name> <branch_name>'
LibLsRemote ==
    /\ pc = "lib_ls_remote"
    /\ \E rc \in ExitCodes, listed \in BOOLEAN, errText \in BOOLEAN :
         /\ Issue("ls-remote", LibGitSuccess(rc), listed)
         /\ Jump(AfterLibLsRemote(local_branch_exists,
                     LibRemoteBranchExists(LibGitSuccess(rc), listed, errText)))
    /\ LibFrame
    /\ UNCHANGED <<tree, stashList>>

\* 'git checkout <branch_name>'
LibCheckout ==
    /\ pc = "lib_checkout"
    /\ \E rc \in ExitCodes :
         /\ Issue("checkout", LibGitSuccess(rc), FALSE)
         /\ Jump(AfterLibCheckout(LibGitSuccess(rc)))
    /\ LibFrame
    /\ UNCHANGED <<tree, stashList>>

\* 'git checkout -b <branch_name> <origin_name>/<branch_name>'
LibCheckoutStart ==
    /\ pc = "lib_checkout_start"
    /\ \E rc \in ExitCodes :
         /\ Issue("checkout -b origin/", LibGitSuccess(rc), FALSE)
         /\ Jump(AfterLibCheckout(LibGitSuccess(rc)))
    /\ LibFrame
    /\ UNCHANGED <<tree, stashList>>

\* 'git checkout -b <branch_name>'
LibCheckoutNew ==
    /\ pc = "lib_checkout_b"
    /\ \E rc \in ExitCodes :
         /\ Issue("checkout -b", LibGitSuccess(rc), FALSE)
         /\ Jump(AfterLibCheckoutNew(LibGitSuccess(rc)))
    /\ LibFrame
    /\ UNCHANGED <<tree, stashList>>

\* 'git push -u <origin_name> <branch_name>'
LibPushUpstream ==
    /\ pc = "lib_push_u"
    /\ \E rc \in ExitCodes :
         /\ Issue("push -u", LibGitSuccess(rc), FALSE)
         /\ Jump(AfterLibPushUpstream(LibGitSuccess(rc)))
    /\ LibFrame
    /\ UNCHANGED <<tree, stashList>>

\* stash_local_changes: 'git stash push --include-untracked -m ...'
LibStashPush ==
    /\ pc = "lib_stash_push"
    /\ \E rc \in ExitCodes :
         LET saved == tree \cap Stashable IN
         /\ Issue("stash push", LibGitSuccess(rc), saved # {})
         /\ stashList' = IF rc = 0 /\ saved # {}
                         THEN <<[by |-> "run", content |-> saved]>> \o stashList
                         ELSE stashList
         /\ tree' = IF rc = 0 THEN tree \ saved ELSE tree
         /\ Jump(Return(LibStashResult(rc, saved = {})))
    /\ LibFrame

\* pop_stashed_changes, first command: 'git stash list'
LibStashList ==
    /\ pc = "lib_stash_list"
    /\ \E rc \in ExitCodes :
         /\ Issue("stash list", LibGitSuccess(rc), stashList # <<>>)
         /\ Jump(AfterLibStashList(LibGitSuccess(rc), stashList = <<>>))
    /\ LibFrame
    /\ UNCHANGED <<tree, stashList>>

\* pop_stashed_changes, second command: 'git stash pop'
LibStashPop ==
    /\ pc = "lib_stash_pop"
    /\ \E o \in PopOutcomes(stashList) :
         /\ IssuePop(o, LibGitSuccess(o.rc), LibPopFailureLog(o.markers))
         /\ stashList' = IF LibGitSuccess(o.rc) THEN Tail(stashList) ELSE stashList
         /\ tree' = TreeAfterPop(tree, stashList, o)
         /\ Jump(AfterLibStashPop(LibGitSuccess(o.rc)))
    /\ LibFrame

NextLib ==
    \/ LibFetch
    \/ LibBranchList
    \/ LibLsRemote
    \/ LibCheckout
    \/ LibCheckoutStart
    \/ LibCheckoutNew
    \/ LibPushUpstream
    \/ LibStashPush
    \/ LibStashList
    \/ LibStashPop

SpecLib == InitLib /\ [][NextLib]_vars

\* a run of a workflow or a call of one of the repository operations
InitAll == Init \/ InitLib

NextAll == Next \/ NextLib

SpecAll == InitAll /\ [][NextAll]_vars

----------------------------------------------------------------------------
(* run_revert_commit_workflow: interactive cherry-pick of a remote commit *)

RevertArgs == [folder |-> "", initialize |-> FALSE]

\* the revert workflow reads task.folder and task.push_after_command only
RevertTasks ==
    {t \in TaskConfigs :
        /\ t.folder = "repo" /\ ~t.origin /\ ~t.pull_before_command
        /\ ~t.pre_command /\ ~t.post_command}

\* the two kinds of call site of _pop_stashed_changes: before a `return
\* False` (no commits, cancellation, failed cherry-pick, failed push) and
\* before the final `return True`
PopSites == {"abort", "final"}

ListPc(site) == IF site = "abort" THEN "rv_abort_list" ELSE "rv_final_list"

PopPc(site) == IF site = "abort" THEN "rv_abort_pop" ELSE "rv_final_pop"

\* faulty variant: the stash is left behind
Abort_WithoutPop(st) == Return(FALSE)

\* `if stashed: _pop_stashed_changes(...)` followed by `return False`
Abort(st) == IF st THEN Goto(ListPc("abort")) ELSE Return(FALSE)

\* `if stashed: if not _pop_stashed_changes(...): <warning>` followed by
\* `return True`
Finish(st) == IF st THEN Goto(ListPc("final")) ELSE Return(TRUE)

\* faulty variant: a failed pop turns the result into a failure
AfterRevertPop_FailureOverturns(site, popped) == Return(site = "final" /\ popped)

\* the return that follows a call of _pop_stashed_changes, whatever it returned
AfterRevertPop(site, popped) == Return(site = "final")

\* _pop_stashed_changes: returns True without a pop when the list fails or
\* is empty
AfterRevertStashList(site, ok, empty) ==
    IF ~ok \/ empty THEN AfterRevertPop(site, TRUE) ELSE Goto(PopPc(site))

\* `if not os.path.exists(repo_path) or not _is_git_repo(repo_path)`
AfterRevertStart(exists, is_repo) ==
    IF ~exists \/ ~is_repo THEN Return(FALSE) ELSE Goto("rv_rev_parse")

\* faulty variant: the checkout is attempted for a branch that is missing
AfterRevertRevParse_GoesOn(branch_exists) == Goto("rv_checkout")

\* 'git rev-parse --verify <branch>': the branch must exist locally
AfterRevertRevParse(branch_exists) ==
    IF ~branch_exists THEN Return(FALSE) ELSE Goto("rv_checkout")

AfterRevertCheckout(checkout_success) ==
    IF ~checkout_success THEN Return(FALSE) ELSE Goto("rv_status")

AfterRevertStatus(ok, has_local_changes) ==
    IF ~ok THEN Return(FALSE)
    ELSE IF has_local_changes THEN Goto("rv_stash_push") ELSE Goto("rv_fetch")

AfterRevertStashPush(ok) == IF ~ok THEN Return(FALSE) ELSE Goto("rv_fetch")

\* _get_remote_commits returns None when 'git fetch' fails
AfterRevertFetch(ok, st) == IF ~ok THEN Abort(st) ELSE Goto("rv_log")

\* `if commits is None or not commits`
AfterRevertLog(ok, n, st) ==
    IF ~ok \/ n = 0 THEN Abort(st) ELSE Goto("rv_select")

\* answers to the selection prompt: numerals from -1 to n + 1, "00", a
\* non-number, Ctrl+C
SelectionInputs(n) ==
    {"00", "x", "^C"} \cup {ToString(k) : k \in (-1)..(n + 1)}

\* int(user_input) of a numeral
IntOf(user_input) ==
    IF user_input = "00" THEN 0
    ELSE CHOOSE k \in (-1)..(MaxCommits + 2) : ToString(k) = user_input

\* the value of selected_index after one round of the selection loop
SelectedIndex(user_input, n) ==
    IF user_input \in {"x", "^C"} THEN -1
    ELSE LET idx == IntOf(user_input) - 1 IN
         IF 0 <= idx /\ idx < n THEN idx ELSE -1

\* faulty variant: the bound of the loop condition, `<= len(commits)`, is
\* the only range check
AfterSelection_UpToN(user_input, n, st) ==
    IF user_input = "^C" THEN Abort(st)
    ELSE IF user_input = "x" THEN Goto("rv_select")
    ELSE LET idx == IntOf(user_input) - 1 IN
         IF idx = -1 /\ user_input = "0" THEN Abort(st)
         ELSE IF ~(0 <= idx /\ idx <= n) THEN Goto("rv_select")
         ELSE Goto("rv_confirm")

\* one round of `while not (0 <= selected_index <= len(commits))`
AfterSelection(user_input, n, st) ==
    IF user_input = "^C" THEN Abort(st)
    ELSE IF user_input = "x" THEN Goto("rv_select")
    ELSE LET idx == IntOf(user_input) - 1 IN
         IF idx = -1 /\ user_input = "0" THEN Abort(st)
         ELSE IF ~(0 <= idx /\ idx < n) THEN Goto("rv_select")
         ELSE Goto("rv_confirm")

\* answers to _prompt_for_confirmation, after strip().lower()
ConfirmInputs == {"yes", "no", "^C"}

\* _prompt_for_confirmation: True only for 'yes', False on Ctrl+C
PromptForConfirmation(response) == response = "yes"

\* faulty variant: the answer to the confirmation is not looked at
AfterConfirmation_Always(confirmed, st) == Goto("rv_cherry_pick")

AfterConfirmation(confirmed, st) ==
    IF ~confirmed THEN Abort(st) ELSE Goto("rv_cherry_pick")

\* outcomes of 'git cherry-pick <hash> --no-edit': 0, 1 with or without
\* conflict markers in the output (a conflict, an empty pick), 128 (fatal)
CherryPickOutcomes ==
    {[rc |-> 0, markers |-> FALSE], [rc |-> 1, markers |-> TRUE],
     [rc |-> 1, markers |-> FALSE], [rc |-> 128, markers |-> FALSE]}

\* the messages logged after a failed cherry-pick
CherryPickFailureLog(rc, markers) ==
    {"revert_cherry_pick_failed", "revert_cherry_pick_conflict_instructions"}

\* the arguments of the cherry-pick: selected_commit['full_hash'] of
\* commits[selected_index] (numbered by its place in the listing), --no-edit
CherryPickArgs(idx) == [commit |-> idx + 1, hash |-> "full_hash", no_edit |-> TRUE]

\* faulty variant: the push and the final return follow a failed cherry-pick
AfterCherryPick_IgnoresFailure(cherry_pick_success, t, st) ==
    IF t.push_after_command THEN Goto("rv_push") ELSE Finish(st)

AfterCherryPick(cherry_pick_success, t, st) ==
    IF ~cherry_pick_success THEN Abort(st)
    ELSE IF t.push_after_command THEN Goto("rv_push") ELSE Finish(st)

\* faulty variant: a failed push is only a warning, as in run_task_workflow
AfterRevertPush_Warning(push_success, st) == Finish(st)

AfterRevertPush(push_success, st) ==
    IF ~push_success THEN Abort(st) ELSE Finish(st)

\* a prompt answered with user_input
Prompt(p, user_input) ==
    cmds' = Append(cmds, [Record(p, 0, TRUE, FALSE, FALSE)
                              EXCEPT !.input = user_input])

\* answers to the selection prompt that made the loop go round again
InvalidAnswers ==
    Cardinality({i \in 1..Len(cmds) :
        /\ cmds[i].cmd = "prompt selection"
        /\ AfterSelection(cmds[i].input, commits, stashed).pc = "rv_select"})

InitRevert ==
    /\ wf = "revert"
    /\ args = RevertArgs
    /\ task \in RevertTasks
    /\ pc = "start"
    /\ result = "none"
    /\ cmds = <<>>
    /\ stashed = FALSE
    /\ pull_success = FALSE
    /\ pop_success = TRUE
    /\ repo_clean_after_pull = FALSE
    /\ commit_made = FALSE
    /\ dirExists \in BOOLEAN
    /\ isRepo \in BOOLEAN
    /\ remote = "none"
    /\ tree \in Trees
    /\ \E n \in 0..MaxPreStash : stashList = OldStashes(n)
    /\ commits = 0
    /\ selected_index = -1
    /\ isRepo => dirExists
    /\ ~isRepo => tree = {} /\ stashList = <<>>

\* what no step of the revert workflow changes
RevertFrame ==
    UNCHANGED <<wf, args, task, pull_success, pop_success,
                repo_clean_after_pull, commit_made, dirExists, isRepo, remote>>

RevertStart ==
    /\ pc = "start"
    /\ wf = "revert"
    /\ Jump(AfterRevertStart(dirExists, isRepo))
    /\ RevertFrame
    /\ UNCHANGED <<cmds, stashed, tree, stashList, commits, selected_index>>

RevertRevParse ==
    /\ pc = "rv_rev_parse"
    /\ \E rc \in ExitCodes :
         /\ Issue("rev-parse", GitSuccess(rc), TRUE)
         /\ Jump(AfterRevertRevParse(GitSuccess(rc)))
    /\ RevertFrame
    /\ UNCHANGED <<stashed, tree, stashList, commits, selected_index>>

RevertCheckout ==
    /\ pc = "rv_checkout"
    /\ \E rc \in ExitCodes :
         /\ Issue("checkout", GitSuccess(rc), FALSE)
         /\ Jump(AfterRevertCheckout(GitSuccess(rc)))
    /\ RevertFrame
    /\ UNCHANGED <<stashed, tree, stashList, commits, selected_index>>

RevertStatus ==
    /\ pc = "rv_status"
    /\ \E rc \in ExitCodes :
         /\ Issue("status", GitSuccess(rc), HasChanges(tree))
         /\ Jump(AfterRevertStatus(GitSuccess(rc), HasChanges(tree)))
    /\ stashed' = FALSE
    /\ RevertFrame
    /\ UNCHANGED <<tree, stashList, commits, selected_index>>

RevertStashPush ==
    /\ pc = "rv_stash_push"
    /\ \E rc \in ExitCodes :
         LET saved == tree \cap Stashable
             ok == StashResult(rc, saved = {}) IN
         /\ Issue("stash push", ok, saved # {})
         /\ stashed' = ok
         /\ stashList' = IF rc = 0 /\ saved # {}
                         THEN <<[by |-> "run", content |-> saved]>> \o stashList
                         ELSE stashList
         /\ tree' = IF rc = 0 THEN tree \ saved ELSE tree
         /\ Jump(AfterRevertStashPush(ok))
    /\ RevertFrame
    /\ UNCHANGED <<commits, selected_index>>

\* _get_remote_commits, first command: 'git fetch origin <branch>'
RevertFetch ==
    /\ pc = "rv_fetch"
    /\ \E rc \in ExitCodes :
         /\ Issue("fetch", GitSuccess(rc), FALSE)
         /\ Jump(AfterRevertFetch(GitSuccess(rc), stashed))
    /\ RevertFrame
    /\ UNCHANGED <<stashed, tree, stashList, commits, selected_index>>

\* _get_remote_commits, second command: 'git log origin/<branch> -n5 ...'
RevertLog ==
    /\ pc = "rv_log"
    /\ \E rc \in ExitCodes, n \in 0..MaxCommits :
         /\ GitSuccess(rc) \/ n = 0
         /\ Issue("log", GitSuccess(rc), n > 0)
         /\ commits' = n
         /\ Jump(AfterRevertLog(GitSuccess(rc), n, stashed))
    /\ RevertFrame
    /\ UNCHANGED <<stashed, tree, stashList, selected_index>>

\* one round of the selection loop
RevertSelect ==
    /\ pc = "rv_select"
    /\ \E user_input \in SelectionInputs(commits) :
         LET next == AfterSelection(user_input, commits, stashed) IN
         /\ next.pc = "rv_select" => InvalidAnswers < MaxInvalid
         /\ Prompt("prompt selection", user_input)
         /\ selected_index' = SelectedIndex(user_input, commits)
         /\ Jump(next)
    /\ RevertFrame
    /\ UNCHANGED <<stashed, tree, stashList, commits>>

RevertConfirm ==
    /\ pc = "rv_confirm"
    /\ \E response \in ConfirmInputs :
         /\ Prompt("prompt confirmation", response)
         /\ Jump(AfterConfirmation(PromptForConfirmation(response), stashed))
    /\ RevertFrame
    /\ UNCHANGED <<stashed, tree, stashList, commits, selected_index>>

\* 'git cherry-pick <full_hash> --no-edit': a conflict leaves unmerged entries
RevertCherryPick ==
    /\ pc = "rv_cherry_pick"
    /\ \E o \in CherryPickOutcomes :
         /\ cmds' = Append(cmds,
                [Record("cherry-pick", o.rc, GitSuccess(o.rc), o.markers, FALSE)
                    EXCEPT !.log = IF GitSuccess(o.rc) THEN {}
                                   ELSE CherryPickFailureLog(o.rc, o.markers)]
                @@ CherryPickArgs(selected_index))
         /\ tree' = IF o.markers THEN tree \cup {"M"} ELSE tree
         /\ Jump(AfterCherryPick(GitSuccess(o.rc), task, stashed))
    /\ RevertFrame
    /\ UNCHANGED <<stashed, stashList, commits, selected_index>>

RevertPush ==
    /\ pc = "rv_push"
    /\ \E rc \in ExitCodes :
         /\ Issue("push", GitSuccess(rc), FALSE)
         /\ Jump(AfterRevertPush(GitSuccess(rc), stashed))
    /\ RevertFrame
    /\ UNCHANGED <<stashed, tree, stashList, commits, selected_index>>

\* _pop_stashed_changes at a call site, first command
RevertStashList(site) ==
    /\ pc = ListPc(site)
    /\ \E rc \in ExitCodes :
         /\ Issue("stash list", GitSuccess(rc), stashList # <<>>)
         /\ Jump(AfterRevertStashList(site, GitSuccess(rc), stashList = <<>>))
    /\ RevertFrame
    /\ UNCHANGED <<stashed, tree, stashList, commits, selected_index>>

\* _pop_stashed_changes at a call site, second command
RevertStashPop(site) ==
    /\ pc = PopPc(site)
    /\ \E o \in PopOutcomes(stashList) :
         /\ IssuePop(o, GitSuccess(o.rc), PopFailureLog(o.markers))
         /\ stashList' = IF GitSuccess(o.rc) THEN Tail(stashList) ELSE stashList
         /\ tree' = TreeAfterPop(tree, stashList, o)
         /\ Jump(AfterRevertPop(site, GitSuccess(o.rc)))
    /\ RevertFrame
    /\ UNCHANGED <<stashed, commits, selected_index>>

NextRevert ==
    \/ RevertStart
    \/ RevertRevParse
    \/ RevertCheckout
    \/ RevertStatus
    \/ RevertStashPush
    \/ RevertFetch
    \/ RevertLog
    \/ RevertSelect
    \/ RevertConfirm
    \/ RevertCherryPick
    \/ RevertPush
    \/ RevertStashList("abort")
    \/ RevertStashList("final")
    \/ RevertStashPop("abort")
    \/ RevertStashPop("final")

SpecRevert == InitRevert /\ [][NextRevert]_vars

\* a run of any of the four workflows
InitRuns == Init \/ InitRevert

NextRuns == Next \/ NextRevert

SpecRuns == InitRuns /\ [][NextRuns]_vars

----------------------------------------------------------------------------
(* git_logic.initialize_repo, called repeatedly on one path *)

\* initialize_repo(repo_path, origin_url): the path, and whether a URL is given
InitializeArgs == {a \in ArgSets : ~a.initialize}

InitializeTasks ==
    {t \in TaskConfigs :
        /\ t.folder = "" /\ ~t.pull_before_command /\ ~t.push_after_command
        /\ ~t.pre_command /\ ~t.post_command}

\* faulty variant: 'git init' is run although .git is there
AfterInitializeStart_AlwaysInit(exists, is_repo) ==
    IF ~exists THEN Return(FALSE) ELSE Goto("ir_init")

\* after the directory check: False when the directory could not be made,
\* True without a command when .git exists
AfterInitializeStart(exists, is_repo) ==
    IF ~exists THEN Return(FALSE)
    ELSE IF is_repo THEN Return(TRUE)
    ELSE Goto("ir_init")

AfterInitializeInit(success, origin_url) ==
    IF ~success THEN Return(FALSE)
    ELSE IF origin_url THEN Goto("ir_remote_add")
    ELSE Return(TRUE)

\* a failed 'remote add' is only logged
AfterInitializeRemoteAdd(success) == Return(TRUE)

\* os.makedirs(repo_path, exist_ok=True): raises on the empty path, may fail
\* otherwise
InitializeMakedirs(path) == IF path = "" THEN {FALSE} ELSE BOOLEAN

\* calls of initialize_repo that have returned
Returned == {i \in 1..Len(cmds) : cmds[i].cmd = "returned"}

InitInitialize ==
    /\ wf = "initialize_repo"
    /\ args \in InitializeArgs
    /\ task \in InitializeTasks
    /\ pc = "ir_start"
    /\ result = "none"
    /\ cmds = <<>>
    /\ stashed = FALSE
    /\ pull_success = FALSE
    /\ pop_success = TRUE
    /\ repo_clean_after_pull = FALSE
    /\ commit_made = FALSE
    /\ dirExists \in BOOLEAN
    /\ isRepo \in BOOLEAN
    /\ remote \in RemoteStates
    /\ tree \in Trees
    /\ \E n \in 0..MaxPreStash : stashList = OldStashes(n)
    /\ commits = 0
    /\ selected_index = -1
    /\ dirExists => repo_path # ""
    /\ isRepo => dirExists
    /\ ~isRepo => remote = "none" /\ tree = {} /\ stashList = <<>>

InitializeFrame ==
    UNCHANGED <<wf, args, task, commits, selected_index, stashed,
                pull_success, pop_success, repo_clean_after_pull, commit_made,
                tree, stashList>>

\* `if not os.path.exists(repo_path): os.makedirs(...)`, then the test for
\* <repo_path>/.git
InitializeStart ==
    /\ pc = "ir_start"
    /\ \E made \in (IF dirExists THEN {TRUE} ELSE InitializeMakedirs(repo_path)) :
         /\ dirExists' = made
         /\ Jump(AfterInitializeStart(made, isRepo))
    /\ InitializeFrame
    /\ UNCHANGED <<cmds, isRepo, remote>>

\* 'git init'
InitializeInit ==
    /\ pc = "ir_init"
    /\ \E rc \in ExitCodes :
         /\ Issue("init", LibGitSuccess(rc), FALSE)
         /\ isRepo' = LibGitSuccess(rc)
         /\ Jump(AfterInitializeInit(LibGitSuccess(rc), task.origin))
    /\ InitializeFrame
    /\ UNCHANGED <<dirExists, remote>>

\* 'git remote add origin <origin_url>'
InitializeRemoteAdd ==
    /\ pc = "ir_remote_add"
    /\ \E rc \in ExitCodes :
         /\ Issue("remote add", LibGitSuccess(rc), FALSE)
         /\ remote' = IF LibGitSuccess(rc) THEN "same" ELSE remote
         /\ Jump(AfterInitializeRemoteAdd(LibGitSuccess(rc)))
    /\ InitializeFrame
    /\ UNCHANGED <<dirExists, isRepo>>

\* the caller notes the returned value and calls initialize_repo again
InitializeAgain ==
    /\ pc = "done"
    /\ Cardinality(Returned) + 1 < MaxCalls
    /\ cmds' = Append(cmds, Record("returned", 0, result = "True", FALSE, FALSE))
    /\ Jump(Goto("ir_start"))
    /\ InitializeFrame
    /\ UNCHANGED <<dirExists, isRepo, remote>>

NextInitialize ==
    \/ InitializeStart
    \/ InitializeInit
    \/ InitializeRemoteAdd
    \/ InitializeAgain

SpecInitialize == InitInitialize /\ [][NextInitialize]_vars

----------------------------------------------------------------------------
(* main.py: the pipeline of the main script, built on git_logic.py *)

\* --folder and "git_repo_path"; "command_line" is the task's pre_command
MainArgs == {a \in ArgSets : ~a.initialize}

MainTasks ==
    {t \in TaskConfigs :
        /\ ~t.origin /\ ~t.pull_before_command /\ ~t.push_after_command
        /\ ~t.post_command}

\* the pre-requisite checks: a path is given, it is a directory with .git
AfterMainStart(path, is_dir, is_repo) ==
    IF path = "" \/ ~is_dir \/ ~is_repo THEN Return(FALSE) ELSE Goto("mn_pull")

\* Step 1, then Step 2 when a command_line is given
AfterMainPull(ok, command_line) ==
    IF ~ok THEN Return(FALSE)
    ELSE IF command_line THEN Goto("mn_command") ELSE Goto("mn_status")

AfterMainCommand(ok) == IF ~ok THEN Return(FALSE) ELSE Goto("mn_status")

\* Step 3: diff_changes returns None on failure; without changes Steps 4 and
\* 5 are skipped
AfterMainStatus(ok, changes_found) ==
    IF ~ok THEN Return(FALSE)
    ELSE IF changes_found THEN Goto("mn_add") ELSE Goto("mn_final_pull")

AfterMainAdd(ok) == IF ~ok THEN Return(FALSE) ELSE Goto("mn_commit")

\* Step 4 sets commit_successful, Step 5 pushes
AfterMainCommit(ok) == IF ~ok THEN Return(FALSE) ELSE Goto("mn_push")

\* Step 5: `if not push_updates(...): ... sys.exit(1)`
AfterMainPush(ok) == IF ~ok THEN Return(FALSE) ELSE Goto("mn_final_pull")

\* Step 6
AfterMainFinalPull(ok) == Return(ok)

InitMain ==
    /\ wf = "main"
    /\ args \in MainArgs
    /\ task \in MainTasks
    /\ pc = "mn_start"
    /\ result = "none"
    /\ cmds = <<>>
    /\ stashed = FALSE
    /\ pull_success = FALSE
    /\ pop_success = TRUE
    /\ repo_clean_after_pull = FALSE
    /\ commit_made = FALSE
    /\ dirExists \in BOOLEAN
    /\ isRepo \in BOOLEAN
    /\ remote = "none"
    /\ tree \in Trees
    /\ stashList = <<>>
    /\ commits = 0
    /\ selected_index = -1
    /\ dirExists => repo_path # ""
    /\ isRepo => dirExists
    /\ ~isRepo => tree = {}
    /\ args.folder = "" \/ task.folder = ""

MainFrame ==
    UNCHANGED <<wf, args, task, commits, selected_index, stashed,
                pull_success, pop_success, repo_clean_after_pull, dirExists,
                isRepo, remote, stashList>>

MainStart ==
    /\ pc = "mn_start"
    /\ Jump(AfterMainStart(repo_path, dirExists, isRepo))
    /\ MainFrame
    /\ UNCHANGED <<cmds, tree, commit_made>>

\* pull_updates: 'git pull origin <branch>'
MainPull ==
    /\ pc = "mn_pull"
    /\ \E rc \in ExitCodes :
         /\ Issue("pull", LibGitSuccess(rc), FALSE)
         /\ tree' \in IF LibGitSuccess(rc) THEN {tree} ELSE {tree, tree \cup {"M"}}
         /\ Jump(AfterMainPull(LibGitSuccess(rc), task.pre_command))
    /\ MainFrame
    /\ UNCHANGED commit_made

\* execute_command(command_line): it may change the working tree in any way
MainCommand ==
    /\ pc = "mn_command"
    /\ \E rc \in ExitCodes :
         /\ Issue("command_line", ShellSuccess(rc), FALSE)
         /\ Jump(AfterMainCommand(ShellSuccess(rc)))
    /\ tree' \in Trees
    /\ MainFrame
    /\ UNCHANGED commit_made

\* diff_changes: 'git status --porcelain'
MainStatus ==
    /\ pc = "mn_status"
    /\ \E rc \in ExitCodes :
         /\ Issue("status", LibGitSuccess(rc), tree # {})
         /\ Jump(AfterMainStatus(LibGitSuccess(rc), tree # {}))
    /\ MainFrame
    /\ UNCHANGED <<tree, commit_made>>

\* add_commit_changes, first command: 'git add .'
MainAdd ==
    /\ pc = "mn_add"
    /\ \E rc \in ExitCodes :
         /\ Issue("add", LibGitSuccess(rc), FALSE)
         /\ Jump(AfterMainAdd(LibGitSuccess(rc)))
    /\ MainFrame
    /\ UNCHANGED <<tree, commit_made>>

\* add_commit_changes, second command: 'git commit -m ...'; every non-zero
\* exit is a failure
MainCommit ==
    /\ pc = "mn_commit"
    /\ \E o \in CommitOutcomes(tree) :
         /\ cmds' = Append(cmds,
                Record("commit", o.rc, LibGitSuccess(o.rc),
                       LibGitSuccess(o.rc) /\ ~o.nothing, o.nothing))
         /\ commit_made' = LibGitSuccess(o.rc)
         /\ tree' = IF o.rc = 0 /\ ~o.nothing THEN tree \ Stashable ELSE tree
         /\ Jump(AfterMainCommit(LibGitSuccess(o.rc)))
    /\ MainFrame

\* push_updates: 'git push <origin> <branch>'
MainPush ==
    /\ pc = "mn_push"
    /\ \E rc \in ExitCodes :
         /\ Issue("push", LibGitSuccess(rc), FALSE)
         /\ Jump(AfterMainPush(LibGitSuccess(rc)))
    /\ MainFrame
    /\ UNCHANGED <<tree, commit_made>>

\* pull_updates again (post-push sync)
MainFinalPull ==
    /\ pc = "mn_final_pull"
    /\ \E rc \in ExitCodes :
         /\ Issue("pull", LibGitSuccess(rc), FALSE)
         /\ tree' \in IF LibGitSuccess(rc) THEN {tree} ELSE {tree, tree \cup {"M"}}
         /\ Jump(AfterMainFinalPull(LibGitSuccess(rc)))
    /\ MainFrame
    /\ UNCHANGED commit_made

NextMain ==
    \/ MainStart
    \/ MainPull
    \/ MainCommand
    \/ MainStatus
    \/ MainAdd
    \/ MainCommit
    \/ MainPush
    \/ MainFinalPull

SpecMain == InitMain /\ [][NextMain]_vars

----------------------------------------------------------------------------
(* The message of an automated commit *)

\* datetime.now(), as the fields strftime prints
Clocks ==
    [Y : {"2026"}, m : {"11"}, d : {"05", "06"}, H : {"07", "23"},
     M : {"30"}, S : {"00"}]

\* a strftime pattern is a sequence of directives and literal characters
DateFormat == <<"%Y", "-", "%m", "-", "%d">>

TimeFormat == <<"%H", ":", "%M", ":", "%S">>

\* task.timestamp_format: empty, a date, date and time
TimestampFormats == {<<>>, DateFormat, DateFormat \o <<" ">> \o TimeFormat}

CommitMessages == {"Build", "Automated update for docs", ""}

\* the functions that build a commit message
Committers == {"run_task_workflow", "run_update_task_workflow", "add_commit_changes"}

\* datetime.strftime(fmt): each directive is replaced by the field of the
\* clock, every other character is kept
Strftime(now, fmt) ==
    [i \in DOMAIN fmt |->
        CASE fmt[i] = "%Y" -> now.Y
          [] fmt[i] = "%m" -> now.m
          [] fmt[i] = "%d" -> now.d
          [] fmt[i] = "%H" -> now.H
          [] fmt[i] = "%M" -> now.M
          [] fmt[i] = "%S" -> now.S
          [] OTHER -> fmt[i]]

\* run_task_workflow and run_update_task_workflow: the suffix is added `if
\* task.timestamp_format`
WorkflowCommitMessage(t, now) ==
    IF t.timestamp_format # <<>>
    THEN <<t.commit_message, " ", "[">> \o Strftime(now, t.timestamp_format) \o <<"]">>
    ELSE <<t.commit_message>>

\* git_logic.add_commit_changes: a fixed pattern after "Auto@"
LibCommitMessage(commit_message_base, now) ==
    <<commit_message_base, " ", "[", "Auto@">>
    \o Strftime(now, DateFormat \o <<" ">> \o TimeFormat) \o <<"]">>

final_commit_message(f, t, now) ==
    IF f = "add_commit_changes" THEN LibCommitMessage(t.commit_message, now)
    ELSE WorkflowCommitMessage(t, now)

InitMessage ==
    /\ wf \in Committers
    /\ args = LibArgs
    /\ task \in [commit_message : CommitMessages, timestamp_format : TimestampFormats]
    /\ pc = "message"
    /\ result = "none"
    /\ cmds = <<>>
    /\ stashed = FALSE
    /\ pull_success = FALSE
    /\ pop_success = TRUE
    /\ repo_clean_after_pull = FALSE
    /\ commit_made = FALSE
    /\ dirExists = TRUE
    /\ isRepo = TRUE
    /\ remote = "none"
    /\ tree = {"M"}
    /\ stashList = <<>>
    /\ commits = 0
    /\ selected_index = -1

\* 'git commit -m <final_commit_message>' at some time of the clock
CommitWithMessage ==
    /\ pc = "message"
    /\ \E now \in Clocks :
         cmds' = Append(cmds, [cmd |-> "commit", now |-> now,
                               message |-> final_commit_message(wf, task, now)])
    /\ Jump(Return(TRUE))
    /\ UNCHANGED <<wf, args, task, commits, selected_index, stashed,
                   pull_success, pop_success, repo_clean_after_pull,
                   commit_made, dirExists, isRepo, remote, tree, stashList>>

NextMessage == CommitWithMessage

SpecMessage == InitMessage /\ [][NextMessage]_vars

----------------------------------------------------------------------------
(* Two runs of run_update_task_workflow on one repository: the section from
   the status check to the stash pop, interleaved at command boundaries *)

Runs == {"A", "B"}

\* faulty variant: the pop looks for the newest entry the run pushed
PopTarget_OwnEntry(list, r) ==
    IF \E k \in DOMAIN list : list[k].by = r
    THEN CHOOSE k \in DOMAIN list :
             list[k].by = r /\ \A j \in 1..(k - 1) : list[j].by # r
    ELSE 1

\* 'git stash pop' names no entry: it applies and drops stash@{0}
PopTarget(list, r) == 1

RemoveAt(list, k) == SubSeq(list, 1, k - 1) \o SubSeq(list, k + 1, Len(list))

\* command c issued by run r
IssueBy(r, c, rc, ok, out) ==
    cmds' = Append(cmds, Record(c, rc, ok, ok /\ out, FALSE) @@ [run |-> r])

\* run r goes where the step sends it
JumpOf(r, next) ==
    /\ pc' = [pc EXCEPT ![r] = next.pc]
    /\ result' = [result EXCEPT ![r] = next.result]

InitTwoRuns ==
    /\ wf = "update"
    /\ args = LibArgs
    /\ task = LibTask
    /\ pc = [r \in Runs |-> "status_before"]
    /\ result = [r \in Runs |-> "none"]
    /\ cmds = <<>>
    /\ stashed = [r \in Runs |-> FALSE]
    /\ pull_success = [r \in Runs |-> FALSE]
    /\ pop_success = TRUE
    /\ repo_clean_after_pull = FALSE
    /\ commit_made = FALSE
    /\ dirExists = TRUE
    /\ isRepo = TRUE
    /\ remote = "same"
    /\ tree \in Trees
    /\ \E n \in 0..MaxPreStash : stashList = OldStashes(n)
    /\ commits = 0
    /\ selected_index = -1

TwoRunsFrame ==
    UNCHANGED <<wf, args, task, commits, selected_index, pop_success,
                repo_clean_after_pull, commit_made, dirExists, isRepo, remote>>

\* _check_for_changes of run r
RunStatus(r) ==
    /\ pc[r] = "status_before"
    /\ \E rc \in ExitCodes :
         /\ IssueBy(r, "status", rc, GitSuccess(rc), HasChanges(tree))
         /\ JumpOf(r, AfterStatusBefore(GitSuccess(rc), HasChanges(tree)))
    /\ TwoRunsFrame
    /\ UNCHANGED <<stashed, pull_success, tree, stashList>>

\* _stash_local_changes of run r: both runs use the same stash message
RunStashPush(r) ==
    /\ pc[r] = "stash_push"
    /\ \E rc \in ExitCodes :
         LET saved == tree \cap Stashable
             ok == StashResult(rc, saved = {}) IN
         /\ IssueBy(r, "stash push", rc, ok, saved # {})
         /\ stashed' = [stashed EXCEPT ![r] = ok]
         /\ stashList' = IF rc = 0 /\ saved # {}
                         THEN <<[by |-> r, content |-> saved]>> \o stashList
                         ELSE stashList
         /\ tree' = IF rc = 0 THEN tree \ saved ELSE tree
         /\ JumpOf(r, AfterStashPush(ok))
    /\ TwoRunsFrame
    /\ UNCHANGED pull_success

\* 'git pull origin <branch>' of run r
RunPull(r) ==
    /\ pc[r] = "pull"
    /\ \E rc \in ExitCodes :
         /\ IssueBy(r, "pull", rc, GitSuccess(rc), FALSE)
         /\ pull_success' = [pull_success EXCEPT ![r] = GitSuccess(rc)]
         /\ tree' \in IF GitSuccess(rc) THEN {tree} ELSE {tree, tree \cup {"M"}}
         /\ JumpOf(r, AfterPull("update", GitSuccess(rc), stashed[r]))
    /\ TwoRunsFrame
    /\ UNCHANGED <<stashed, stashList>>

\* _pop_stashed_changes of run r, first command
RunStashList(r) ==
    /\ pc[r] = "stash_list"
    /\ \E rc \in ExitCodes :
         /\ IssueBy(r, "stash list", rc, GitSuccess(rc), stashList # <<>>)
         /\ JumpOf(r, AfterStashList("update", GitSuccess(rc), stashList = <<>>,
                                     pull_success[r]))
    /\ TwoRunsFrame
    /\ UNCHANGED <<stashed, pull_success, tree, stashList>>

\* _pop_stashed_changes of run r, second command; the record keeps whose
\* entry the pop removed
RunStashPop(r) ==
    /\ pc[r] = "stash_pop"
    /\ \E o \in PopOutcomes(stashList) :
         LET k == PopTarget(stashList, r) IN
         /\ cmds' = Append(cmds,
                [Record("stash pop", o.rc, GitSuccess(o.rc), o.markers, FALSE)
                    EXCEPT !.log = IF GitSuccess(o.rc) THEN {}
                                   ELSE {PopFailureLog(o.markers)}]
                @@ [run |-> r,
                    popped |-> IF GitSuccess(o.rc) THEN stashList[k].by ELSE "none"])
         /\ stashList' = IF GitSuccess(o.rc) THEN RemoveAt(stashList, k)
                         ELSE stashList
         /\ tree' = IF GitSuccess(o.rc) THEN tree \cup stashList[k].content
                    ELSE IF o.markers THEN tree \cup {"M"}
                    ELSE tree
         /\ JumpOf(r, AfterStashPop("update", GitSuccess(o.rc), pull_success[r]))
    /\ TwoRunsFrame
    /\ UNCHANGED <<stashed, pull_success>>

\* no lock is taken: whichever run has a command to issue may issue it
NextTwoRuns ==
    \E r \in Runs :
        \/ RunStatus(r)
        \/ RunStashPush(r)
        \/ RunPull(r)
        \/ RunStashList(r)
        \/ RunStashPop(r)

SpecTwoRuns == InitTwoRuns /\ [][NextTwoRuns]_vars

----------------------------------------------------------------------------
(* Properties *)

Idx == 1..Len(cmds)

\* command c was issued by the run
Has(c) == \E i \in Idx : cmds[i].cmd = c

Last(i) == i = Len(cmds)

\* command i is the status check made after a successful pull
StatusAfterPullAt(i) ==
    /\ cmds[i].cmd = "status"
    /\ \E j \in 1..(i - 1) : cmds[j].cmd = "pull" /\ cmds[j].ok

CommandPhase == {"pre_command", "add", "commit", "push", "post_command"}

NothingToCommitAt(i) == cmds[i].cmd = "commit" /\ cmds[i].ok /\ ~cmds[i].out

\* the commit step reported that a commit was made
CommitMadeAt(i) == cmds[i].cmd = "commit" /\ cmds[i].ok /\ cmds[i].out

PushOnlyAfterCommitMade ==
    \A i \in Idx :
        cmds[i].cmd = "push"
        => /\ task.push_after_command
           /\ i > 1
           /\ CommitMadeAt(i - 1)

C3_PushFailureIsWarning ==
    \A i \in Idx :
        (wf \in {"task", "update"} /\ cmds[i].cmd = "push" /\ ~cmds[i].ok)
        => ~(Last(i) /\ pc = "done" /\ result = "False")

\* command i is followed by nothing but the commands of _pop_stashed_changes
OnlyPopAfter(i) ==
    \A j \in (i + 1)..Len(cmds) : cmds[j].cmd \in {"stash list", "stash pop"}

\* the run created a stash before issuing command i
StashedBefore(i) ==
    \E j \in 1..(i - 1) : cmds[j].cmd = "stash push" /\ cmds[j].ok

\* C4: in run_task_workflow, run_update_task_workflow and run_pull_workflow a
\* failed 'git pull' makes the run return failure, no pre-command, add,
\* commit, push or post-command is executed after it, and when a stash had
\* been created a stash pop is attempted before the run returns.
C4_PullFailureIsFatal ==
    \A i \in Idx :
        (cmds[i].cmd = "pull" /\ ~cmds[i].ok)
        => /\ OnlyPopAfter(i)
           /\ result # "True"
           /\ pc \in {"done", "stash_list", "stash_pop"}
           /\ pc = "done"
              => /\ result = "False"
                 /\ StashedBefore(i)
                    => i < Len(cmds) /\ cmds[i + 1].cmd = "stash list"

\* a run whose pull failed after it had stashed, that popped the stash and
\* returned failure
C4_Witness ==
    /\ \E i \in Idx : /\ cmds[i].cmd = "pull" /\ ~cmds[i].ok
                      /\ StashedBefore(i)
                      /\ i + 2 = Len(cmds)
                      /\ cmds[i + 2].cmd = "stash pop"
    /\ result = "False"

\* C5: 'git pull' is issued only directly after a status check that reported
\* no pending changes or directly after a successful stash of the changes the
\* status check reported; a failed status check or a failed stash makes the
\* run return failure before any pull is issued.
C5_PullOnlyWhenTreeSafe ==
    /\ \A i \in Idx :
           cmds[i].cmd = "pull"
           => /\ i > 1
              /\ \/ cmds[i - 1].cmd = "status" /\ cmds[i - 1].ok /\ ~cmds[i - 1].out
                 \/ /\ cmds[i - 1].cmd = "stash push" /\ cmds[i - 1].ok
                    /\ i > 2
                    /\ cmds[i - 2].cmd = "status" /\ cmds[i - 2].ok /\ cmds[i - 2].out
    /\ \A i \in Idx :
           (cmds[i].cmd \in {"status", "stash push"} /\ ~cmds[i].ok
               /\ ~StatusAfterPullAt(i))
           => /\ Last(i)
              /\ pc = "done"
              /\ result = "False"
              /\ ~Has("pull")

\* a run that found pending changes, failed to stash them and returned
\* failure without pulling
C5_Witness ==
    /\ \E i \in Idx : /\ cmds[i].cmd = "stash push" /\ ~cmds[i].ok
                      /\ cmds[i - 1].cmd = "status" /\ cmds[i - 1].out
    /\ result = "False"
    /\ ~Has("pull")

\* command i is a failed stash pop that follows a successful pull
PopFailedAfterPullAt(i) ==
    /\ cmds[i].cmd = "stash pop" /\ ~cmds[i].ok
    /\ \E j \in 1..(i - 1) : cmds[j].cmd = "pull" /\ cmds[j].ok

\* C6: when the stash pop that follows a successful pull fails, the run does
\* not return failure because of it: run_task_workflow and
\* run_update_task_workflow proceed to the status re-check, run_pull_workflow
\* returns success.
C6_PopFailureIsWarning ==
    \A i \in Idx :
        PopFailedAfterPullAt(i)
        => IF Last(i)
           THEN IF wf = "pull"
                THEN pc = "done" /\ result = "True"
                ELSE pc = "status_after" /\ result = "none"
           ELSE wf # "pull" /\ cmds[i + 1].cmd = "status"

\* a run_task run whose stash pop failed after the pull and that went on to
\* commit and returned success
C6_Witness ==
    /\ wf = "task"
    /\ \E i \in Idx : PopFailedAfterPullAt(i)
    /\ \E i \in Idx : CommitMadeAt(i)
    /\ result = "True"

\* C7: in run_task_workflow with pre_command set, when the repository is not
\* clean after the pull (or no pull was configured) the pre-command is
\* executed, and before 'git add'; when it exits non-zero the run returns
\* failure and no add, commit, push or post-command is executed.
C7_PreCommandFirstAndFatal ==
    (wf = "task" /\ task.pre_command)
    => /\ \A i \in Idx :
              cmds[i].cmd \in {"add", "commit", "push", "post_command"}
              => \E j \in 1..(i - 1) : cmds[j].cmd = "pre_command" /\ cmds[j].ok
       /\ \A i \in Idx :
              (StatusAfterPullAt(i) /\ cmds[i].ok /\ cmds[i].out)
              => IF Last(i) THEN pc = "pre_command"
                 ELSE cmds[i + 1].cmd = "pre_command"
       /\ \A i \in Idx :
              (cmds[i].cmd = "pre_command" /\ ~cmds[i].ok)
              => /\ Last(i)
                 /\ pc = "done"
                 /\ result = "False"
       /\ (~task.pull_before_command /\ pc \in {"add", "commit", "push", "post_command", "done"}
              /\ \E i \in Idx : cmds[i].cmd \in {"checkout", "checkout --track", "checkout -b"}
                                /\ cmds[i].ok)
          => Has("pre_command")

\* a run_task run without pull whose pre-command failed, and that returned
\* failure right after it
C7_Witness ==
    /\ wf = "task"
    /\ task.pre_command
    /\ ~task.pull_before_command
    /\ cmds # <<>>
    /\ cmds[Len(cmds)].cmd = "pre_command"
    /\ ~cmds[Len(cmds)].ok
    /\ result = "False"

\* C8: in run_task_workflow the post-command is executed only if the
\* repository was not clean after the pull, post_command is set, and neither
\* the add/commit step nor an executed push aborted the run; it runs after the
\* commit and push steps, and its failure makes the run return failure.
C8_PostCommandLastAndFatal ==
    \A i \in Idx :
        cmds[i].cmd = "post_command"
        => /\ wf = "task"
           /\ task.post_command
           /\ ~repo_clean_after_pull
           /\ ~\E j \in Idx : StatusAfterPullAt(j) /\ cmds[j].ok /\ ~cmds[j].out
           /\ \A j \in Idx : cmds[j].cmd \in {"add", "commit", "push"}
                             => j < i /\ cmds[j].ok
           /\ \E j \in 1..(i - 1) :
                  /\ cmds[j].cmd = "commit"
                  /\ (task.push_after_command /\ cmds[j].out)
                     => cmds[j + 1].cmd = "push" /\ j + 2 = i
           /\ Last(i)
           /\ pc = "done"
           /\ result = (IF cmds[i].ok THEN "True" ELSE "False")

\* a run_task run that committed, pushed, and whose post-command then failed
C8_Witness ==
    /\ wf = "task"
    /\ Has("push")
    /\ cmds[Len(cmds)].cmd = "post_command"
    /\ ~cmds[Len(cmds)].ok
    /\ result = "False"

\* the place of a command in the order of run_task_workflow's steps
StepRank(c) ==
    CASE c \in {"init", "remote -v", "remote add"} -> 1
      [] c \in {"rev-parse", "checkout", "ls-remote", "checkout --track",
                "checkout -b", "push -u"} -> 2
      [] c \in {"status", "stash push", "pull", "stash list", "stash pop"} -> 3
      [] c = "pre_command" -> 4
      [] c \in {"add", "commit"} -> 5
      [] c = "push" -> 6
      [] c = "post_command" -> 7

\* the steps whose failure is fatal (the push after the commit is left out:
\* C3 is about it)
FatalSteps ==
    {"init", "remote -v", "remote add", "checkout", "checkout --track",
     "checkout -b", "status", "stash push", "pull", "pre_command", "add",
     "commit", "post_command"}

\* C9: every run of run_task_workflow issues its commands in the order
\* repository check/initialize, branch checkout, stash/pull/pop, pre-command,
\* add+commit, push, post-command, and once a step failed fatally no further
\* command is issued, except the stash pop attempted after a failed pull; the
\* run then returns failure.
C9_FixedOrderAndAbort ==
    wf = "task"
    => /\ \A i \in Idx :
              i < Len(cmds) => StepRank(cmds[i].cmd) <= StepRank(cmds[i + 1].cmd)
       /\ \A i \in Idx :
              (cmds[i].cmd \in FatalSteps /\ ~cmds[i].ok)
              => /\ result # "True"
                 /\ IF cmds[i].cmd = "pull"
                    THEN OnlyPopAfter(i) /\ pc \in {"done", "stash_list", "stash_pop"}
                    ELSE Last(i) /\ pc = "done"

\* a run_task run that went through every step from the branch checkout to
\* the post-command and returned success
C9_Witness ==
    /\ wf = "task"
    /\ Has("remote add") /\ Has("push -u") /\ Has("stash pop")
    /\ Has("pre_command") /\ Has("commit") /\ Has("push") /\ Has("post_command")
    /\ result = "True"

\* command i left the branch checked out
BranchReadyAt(i) ==
    \/ cmds[i].cmd \in {"checkout", "checkout --track"} /\ cmds[i].ok
    \/ cmds[i].cmd = "checkout -b" /\ cmds[i].ok /\ ~task.origin
    \/ cmds[i].cmd = "push -u"

\* C10: run_update_task_workflow always performs the stash/pull/pop protocol,
\* whatever task.pull_before_command says, and never executes
\* task.pre_command or task.post_command.
C10_UpdateAlwaysPullsNeverRunsCommands ==
    wf = "update"
    => /\ ~Has("pre_command")
       /\ ~Has("post_command")
       /\ \A i \in Idx :
              BranchReadyAt(i)
              => IF Last(i) THEN pc = "status_before" ELSE cmds[i + 1].cmd = "status"
       /\ \A i \in Idx :
              cmds[i].cmd \in {"add", "commit", "push"}
              => \E j \in 1..(i - 1) : cmds[j].cmd = "pull" /\ cmds[j].ok
       /\ \A i \in Idx :
              (cmds[i].cmd = "pull" /\ StashedBefore(i))
              => IF Last(i) THEN pc = "stash_list" ELSE cmds[i + 1].cmd = "stash list"
       /\ result = "True" => Has("pull")

\* a run_update run with pull_before_command unset and both commands set that
\* stashed, pulled, popped, committed and returned success
C10_Witness ==
    /\ wf = "update"
    /\ ~task.pull_before_command
    /\ task.pre_command /\ task.post_command
    /\ Has("stash pop")
    /\ Has("commit")
    /\ result = "True"

\* the commands of the repository check, the branch checkout and the
\* stash/pull/pop protocol
SyncCommands ==
    {"remote -v", "remote add", "rev-parse", "checkout", "ls-remote",
     "checkout --track", "checkout -b", "push -u", "status", "stash push",
     "pull", "stash list", "stash pop"}

\* command i is the upstream push of the branch that command i - 1 created
UpstreamPushOfNewBranchAt(i) ==
    /\ cmds[i].cmd = "push -u"
    /\ i > 1
    /\ cmds[i - 1].cmd = "checkout -b"
    /\ cmds[i - 1].ok

C12_NoInitializeNoEffect ==
    [][/\ (pc = "start" /\ wf = "task" /\ ~isRepo /\ ~args.initialize)
          => /\ pc' = "done"
             /\ result' = "False"
             /\ cmds' = <<>>
             /\ dirExists' = dirExists
       /\ (dirExists' # dirExists) => args.initialize
       /\ (cmds' # cmds /\ cmds'[Len(cmds')].cmd = "init") => args.initialize]_vars

\* C13: run_task_workflow called with an empty repository path (task.folder
\* empty and no folder given on the command line) returns failure without
\* issuing any command.
C13_EmptyPathFailsWithoutCommand ==
    (wf = "task" /\ repo_path = "")
    => /\ cmds = <<>>
       /\ pc \in {"start", "done"}
       /\ pc = "done" => result = "False"

\* run_task_workflow has returned on an empty repository path, with the
\* initialize flag set
C13_Witness ==
    /\ wf = "task"
    /\ task.folder = "" /\ args.folder = ""
    /\ args.initialize
    /\ pc = "done"
    /\ result = "False"

\* the commands of the checkout-or-create step, in the workflows and in
\* git_logic.checkout_or_create_branch
BranchStepCommands ==
    {"fetch", "branch --list", "rev-parse", "ls-remote", "checkout",
     "checkout --track", "checkout -b origin/", "checkout -b", "push -u"}

\* command i is the local existence check and it found the branch
LocalBranchFoundAt(i) ==
    cmds[i].cmd \in {"rev-parse", "branch --list"} /\ cmds[i].out

\* C14: when the target branch exists locally, the checkout-or-create step
\* issues only the local existence check and 'git checkout <branch>': no
\* fetch, no ls-remote, no push.
C14_LocalBranchNoRemoteConsulted ==
    (\E i \in Idx : LocalBranchFoundAt(i))
    => \A j \in Idx :
           cmds[j].cmd \in BranchStepCommands
           => cmds[j].cmd \in {"rev-parse", "branch --list", "checkout"}

\* command i is the remote look-up made when the branch does not exist
\* locally, in one of the workflows
RemoteLookupAt(i) == wf \in Workflows /\ cmds[i].cmd = "ls-remote"

\* the command issued after command i, or about to be issued
NextIs(i, c, p) == IF Last(i) THEN pc = p ELSE cmds[i + 1].cmd = c

\* after a remote look-up that found the branch: a tracking branch, no new
\* branch and no upstream push
TracksRemoteBranchAfter(i) ==
    /\ NextIs(i, "checkout --track", "checkout_track")
    /\ ~Has("checkout -b")
    /\ ~Has("push -u")

\* C15 as stated: when the branch does not exist locally, a branch found on
\* the remote is checked out as a tracking branch, with neither 'checkout -b
\* <branch>' nor 'push -u'; a branch found on neither side is created with
\* 'checkout -b <branch>' and an upstream push is then attempted.
C15_NoLocalBranch_Original ==
    \A i \in Idx :
        RemoteLookupAt(i)
        => IF cmds[i].out
           THEN TracksRemoteBranchAfter(i)
           ELSE /\ NextIs(i, "checkout -b", "checkout_b")
                /\ (~Last(i) /\ cmds[i + 1].ok) => NextIs(i + 1, "push -u", "push_u")

\* C15, amended: in the three workflows, when the branch does not exist
\* locally, a branch found on the remote is checked out as a tracking branch,
\* with neither 'checkout -b <branch>' nor 'push -u'; a branch found on
\* neither side is created with 'checkout -b <branch>', and the upstream push
\* is then attempted if the checkout succeeded and an origin is configured;
\* with no origin configured no upstream push is issued.
C15_NoLocalBranch ==
    \A i \in Idx :
        RemoteLookupAt(i)
        => IF cmds[i].out
           THEN TracksRemoteBranchAfter(i)
           ELSE /\ NextIs(i, "checkout -b", "checkout_b")
                /\ (~Last(i) /\ cmds[i + 1].ok /\ task.origin)
                   => NextIs(i + 1, "push -u", "push_u")
                /\ ~task.origin => ~Has("push -u")

\* a workflow created a branch found on neither side with no origin
\* configured and went on without an upstream push
C15_Witness ==
    /\ ~task.origin
    /\ \E i \in Idx :
           /\ RemoteLookupAt(i) /\ ~cmds[i].out
           /\ i + 1 < Len(cmds)
           /\ cmds[i + 1].cmd = "checkout -b" /\ cmds[i + 1].ok
           /\ cmds[i + 2].cmd # "push -u"
    /\ result = "True"

C17_CommitClassification ==
    \A i \in Idx :
        cmds[i].cmd = "commit"
        => /\ cmds[i].nothing => cmds[i].ok /\ ~cmds[i].out
           /\ (cmds[i].rc = 0 /\ ~cmds[i].nothing) => cmds[i].ok /\ cmds[i].out
           /\ (cmds[i].rc # 0 /\ ~cmds[i].nothing) => ~cmds[i].ok /\ ~cmds[i].out
           /\ Last(i) => commit_made = cmds[i].out
           /\ ~cmds[i].ok
              => /\ wf \in {"task", "update"}
                 /\ Last(i)
                 /\ pc = "done"
                 /\ result = "False"

\* a commit exited non-zero with the "nothing to commit" message and the run
\* returned success
C17_Witness ==
    /\ \E i \in Idx :
           /\ cmds[i].cmd = "commit"
           /\ cmds[i].rc # 0
           /\ cmds[i].nothing
    /\ result = "True"

\* command i is a 'git stash push' that completed and saved nothing
NothingSavedAt(i) ==
    cmds[i].cmd = "stash push" /\ cmds[i].rc = 0 /\ ~cmds[i].out

\* C18: when 'git stash push' completes but saved nothing ("No local changes
\* to save"), the workflow continues to the pull and, no stash token being
\* recorded, issues no 'git stash pop' afterwards.
C18_NothingSavedNoPop ==
    wf \in Workflows
    => \A i \in Idx :
           NothingSavedAt(i)
           => /\ NextIs(i, "pull", "pull")
              /\ \A j \in (i + 1)..Len(cmds) : cmds[j].cmd # "stash pop"

\* C19: the pop operation (_pop_stashed_changes in the workflows,
\* git_logic.pop_stashed_changes) returns success without issuing 'git stash
\* pop' whenever 'git stash list' shows no stash entries.
C19_EmptyStashListIsNoOp ==
    \A i \in Idx :
        (cmds[i].cmd = "stash list" /\ ~cmds[i].out)
        => /\ ~Last(i) => cmds[i + 1].cmd # "stash pop"
           /\ Last(i)
              => /\ pc \notin {"stash_pop", "lib_stash_pop"}
                 /\ wf \in Workflows => pop_success
                 /\ wf \in LibFunctions => pc = "done" /\ result = "True"

\* a workflow whose 'git stash list' succeeded and listed nothing went on
\* without a pop and returned success
C19_Witness ==
    /\ wf \in Workflows
    /\ \E i \in Idx : cmds[i].cmd = "stash list" /\ cmds[i].ok /\ ~cmds[i].out
    /\ ~Has("stash pop")
    /\ result = "True"

\* C20 as stated: a working tree whose only pending entries are untracked
\* files is not stashed before the pull.
C20_UntrackedOnlyNotStashed_Original ==
    pc = "stash_push" => tree \ {"U"} # {}

\* C20, amended: the decision to stash before a pull uses the same status
\* check as the staging decision: any pending entry, tracked or untracked,
\* counts.  After a successful pre-pull status the run stashes iff the tree has
\* a pending entry, untracked ones included; after a successful post-pull
\* status the run goes on to the pre-command or the staging iff the tree has a
\* pending entry.
C20_AnyEntryCountsForStashAndStaging ==
    /\ pc = "stash_push" => tree # {}
    /\ (pc = "pull" /\ cmds[Len(cmds)].cmd = "status") => tree = {}
    /\ \A i \in Idx :
           (StatusAfterPullAt(i) /\ cmds[i].ok /\ Last(i))
           => IF tree = {}
              THEN pc = "done" /\ result = "True"
              ELSE pc \in {"pre_command", "add"}

\* a run is about to stash a tree whose only pending entry is untracked
C20_Witness ==
    /\ pc = "stash_push"
    /\ tree = {"U"}
    /\ cmds[Len(cmds)].cmd = "status"
    /\ cmds[Len(cmds)].out

\* C29: 'git remote add origin <url>' is issued only when an origin URL is
\* given and the repository has no remote 'origin' configured yet
C29_RemoteAddOnlyWithoutOrigin ==
    pc = "remote_add" => task.origin /\ remote = "none"

StatusSteps == {i \in 1..Len(cmds) : cmds[i].cmd = "status"}

FirstStatus == CHOOSE i \in StatusSteps : \A j \in StatusSteps : i <= j

\* a run of run_task_workflow with pull_before_command on a repository whose
\* only pending entry is an untracked file, in which every command from the
\* first status check on succeeds (the pull has nothing to merge, the pop
\* applies cleanly) and a pre-command, if any, leaves the file alone
UntrackedFileRun ==
    /\ wf = "task"
    /\ task.pull_before_command
    /\ StatusSteps # {}
    /\ cmds[FirstStatus].tree = {"U"}
    /\ \A j \in FirstStatus..Len(cmds) :
          /\ cmds[j].ok
          /\ cmds[j].cmd = "add" => cmds[j].tree = {"U"}

UntrackedFileSteps ==
    <<"status", "stash push", "pull", "stash list", "stash pop", "status">>
    \o (IF task.pre_command THEN <<"pre_command">> ELSE <<>>)
    \o <<"add", "commit">>
    \o (IF task.push_after_command THEN <<"push">> ELSE <<>>)
    \o (IF task.post_command THEN <<"post_command">> ELSE <<>>)

\* C21: with exactly one untracked file, pull_before_command set and nothing
\* new on the remote, run_task_workflow stashes, pulls, pops the stash, finds
\* the file still pending in the re-check, commits it and pushes if
\* push_after_command is set, in that order, and returns success
C21_UntrackedFileStashedPulledCommitted ==
    UntrackedFileRun =>
        LET steps == SubSeq(cmds, FirstStatus, Len(cmds))
            n == Len(UntrackedFileSteps) IN
        /\ Len(steps) <= n
        /\ \A k \in 1..Len(steps) :
              /\ steps[k].cmd = UntrackedFileSteps[k]
              /\ k = 2 => steps[k].out
              /\ k = 6 => steps[k].out /\ steps[k].tree = {"U"}
              /\ steps[k].cmd = "commit" => steps[k].out
        /\ pc = "done" => Len(steps) = n /\ result = "True"

C21_Witness ==
    /\ UntrackedFileRun
    /\ pc = "done"
    /\ task.push_after_command
    /\ cmds[Len(cmds)].cmd = "push"

\* commands that create a branch
BranchCreation == {"checkout -b", "checkout --track", "checkout -b origin/", "branch"}

\* C22: run_revert_commit_workflow never creates a branch; when the branch
\* does not exist locally it returns failure before any checkout, stash,
\* fetch or cherry-pick is issued
C22_RevertNeedsLocalBranch ==
    wf = "revert" =>
        /\ \A i \in Idx : cmds[i].cmd \notin BranchCreation
        /\ \A i \in Idx :
              cmds[i].cmd = "rev-parse" /\ ~cmds[i].ok =>
                  /\ pc = "done" /\ result = "False"
                  /\ \A j \in Idx : cmds[j].cmd \notin
                        {"checkout", "stash push", "fetch", "cherry-pick"}

C22_Witness ==
    /\ wf = "revert"
    /\ pc = "done"
    /\ cmds # <<>>
    /\ cmds[Len(cmds)].cmd = "rev-parse"
    /\ ~cmds[Len(cmds)].ok

\* step i ends the run without a selection: a cancellation at a prompt, or
\* no remote commit listed
CancelledAt(i) ==
    \/ cmds[i].cmd = "prompt selection" /\ cmds[i].input \in {"0", "^C"}
    \/ cmds[i].cmd = "prompt confirmation" /\ cmds[i].input # "yes"
    \/ cmds[i].cmd = "fetch" /\ ~cmds[i].ok
    \/ cmds[i].cmd = "log" /\ (~cmds[i].ok \/ ~cmds[i].out)

\* _pop_stashed_changes was called after step i
PopAttemptedAfter(i) ==
    \E j \in Idx : j > i /\ cmds[j].cmd = "stash list"

\* C23: on every cancellation path and when no remote commits can be listed
\* the revert workflow returns failure without a cherry-pick, and attempts a
\* stash pop before returning if it had stashed local changes
C23_CancellationRestoresStash ==
    \A i \in Idx :
        wf = "revert" /\ CancelledAt(i) =>
            /\ ~Has("cherry-pick")
            /\ result # "True"
            /\ stashed => pc \in {"rv_abort_list", "rv_abort_pop", "done"}
            /\ ~stashed => pc = "done"
            /\ pc = "done" =>
                  /\ result = "False"
                  /\ stashed => PopAttemptedAfter(i)

C23_Witness ==
    /\ wf = "revert"
    /\ pc = "done"
    /\ stashed
    /\ \E i \in Idx : cmds[i].cmd = "prompt confirmation" /\ cmds[i].input = "^C"
    /\ cmds[Len(cmds)].cmd = "stash pop"

PickedAndPushed(i) ==
    /\ cmds[i].ok
    /\ \A j \in Idx : cmds[j].cmd = "push" => cmds[j].ok

C26_ConflictInstructionsOnlyOnConflict ==
    \A i \in Idx :
        cmds[i].cmd = "cherry-pick" /\ ~cmds[i].ok =>
            ("revert_cherry_pick_conflict_instructions" \in cmds[i].log
                <=> cmds[i].rc = 1 /\ cmds[i].out)

\* the messages for a failed pop that is not a conflict
GenericPopFailure == {"git_stash_pop_failed_general", "git_stash_failed"}

C30_FinalPullAfterFailedPush ==
    \A i \in Idx :
        wf = "main" /\ cmds[i].cmd = "push" /\ ~cmds[i].ok =>
            /\ pc \in {"mn_final_pull", "done"}
            /\ pc = "done" => \E j \in Idx : j > i /\ cmds[j].cmd = "pull"

\* C31: the message of every automated commit is the configured
\* commit_message, one space, and the current time formatted with the task's
\* timestamp_format inside square brackets
C31_CommitMessageFormat ==
    \A i \in Idx :
        cmds[i].cmd = "commit" /\ wf \in Committers =>
            cmds[i].message =
                <<task.commit_message, " ", "[">>
                \o Strftime(cmds[i].now, task.timestamp_format) \o <<"]">>

\* the answer at prompt i is the number k of a listed commit
SelectsAt(i, k) ==
    /\ cmds[i].cmd = "prompt selection"
    /\ k \in 1..commits
    /\ cmds[i].input = ToString(k)

\* C32: the revert workflow issues 'git cherry-pick' only after the user
\* selected a valid commit number and then answered 'yes' to the
\* confirmation, and always with --no-edit on the full hash of the selected
\* commit
C32_CherryPickOnlyWhenConfirmed ==
    \A i \in Idx :
        wf = "revert" /\ cmds[i].cmd = "cherry-pick" =>
            /\ i > 2
            /\ cmds[i - 1].cmd = "prompt confirmation"
            /\ cmds[i - 1].input = "yes"
            /\ SelectsAt(i - 2, cmds[i].commit)
            /\ cmds[i].hash = "full_hash"
            /\ cmds[i].no_edit

C32_Witness ==
    /\ wf = "revert"
    /\ cmds # <<>>
    /\ cmds[Len(cmds)].cmd = "cherry-pick"
    /\ cmds[Len(cmds)].commit = 2
    /\ \E i \in Idx : cmds[i].cmd = "prompt confirmation" /\ cmds[i].input = "yes"

\* prompt i was followed by another round of the selection loop
RepromptedAfter(i) ==
    IF Last(i) THEN pc = "rv_select" /\ selected_index = -1
    ELSE cmds[i + 1].cmd = "prompt selection"

\* C33: at the selection prompt with N listed commits, k with 1 <= k <= N
\* selects the k-th commit, '0' cancels, every other input selects nothing
\* and prompts again; the loop never exits with an index outside 0..N-1
C33_SelectionLoop ==
    wf = "revert" =>
        /\ pc \in {"rv_confirm", "rv_cherry_pick"}
              => 0 <= selected_index /\ selected_index < commits
        /\ \A i \in Idx :
              /\ cmds[i].cmd = "cherry-pick" => cmds[i].commit \in 1..commits
              /\ cmds[i].cmd = "prompt selection" =>
                    IF \E k \in 1..commits : SelectsAt(i, k)
                    THEN IF Last(i)
                         THEN /\ pc = "rv_confirm"
                              /\ SelectsAt(i, selected_index + 1)
                         ELSE cmds[i + 1].cmd = "prompt confirmation"
                    ELSE IF cmds[i].input = "0"
                    THEN /\ result # "True"
                         /\ pc \in {"rv_abort_list", "rv_abort_pop", "done"}
                         /\ \A j \in Idx : j > i =>
                               cmds[j].cmd \in {"stash list", "stash pop"}
                    ELSE cmds[i].input # "^C" => RepromptedAfter(i)

C33_Witness ==
    /\ wf = "revert"
    /\ pc = "rv_confirm"
    /\ selected_index = 1
    /\ \E i \in Idx :
          /\ cmds[i].cmd = "prompt selection"
          /\ cmds[i].input = ToString(commits + 1)

\* C39: the revert workflow returns success if and only if the cherry-pick
\* was issued and succeeded and either push_after_command is unset or the
\* push succeeded
C39_RevertSuccessIff ==
    wf = "revert" /\ pc = "done" =>
        (result = "True" <=>
            /\ \E i \in Idx : cmds[i].cmd = "cherry-pick" /\ cmds[i].ok
            /\ \/ ~task.push_after_command
               \/ \E j \in Idx : cmds[j].cmd = "push" /\ cmds[j].ok)

C39_Witness ==
    /\ wf = "revert"
    /\ pc = "done"
    /\ result = "True"
    /\ task.push_after_command
    /\ Has("push")

\* C34: add_commit_changes returns True, not failure, when 'git commit' exits
\* with 1 because there is nothing to commit
C34_NothingToCommitIsSuccess ==
    \A i \in Idx :
        wf = "main" /\ cmds[i].cmd = "commit" /\ cmds[i].rc = 1 /\ cmds[i].nothing
            => cmds[i].ok /\ result # "False"

\* calls of _pop_stashed_changes made by the run
PopCalls == {i \in Idx : cmds[i].cmd = "stash list"}

GoesOnToCommitAfter(s) ==
    LET pre == wf = "task" /\ task.pre_command
        a == IF pre THEN s + 2 ELSE s + 1 IN
    /\ pre => NextIs(s, "pre_command", "pre_command")
    /\ (pre /\ ~Last(s) /\ cmds[s + 1].ok) => NextIs(s + 1, "add", "add")
    /\ ~pre => NextIs(s, "add", "add")
    /\ (a <= Len(cmds) /\ cmds[a].cmd = "add" /\ cmds[a].ok)
          => NextIs(a, "commit", "commit")
    /\ (a + 1 <= Len(cmds) /\ cmds[a + 1].cmd = "commit" /\ cmds[a + 1].out)
          => IF task.push_after_command
             THEN NextIs(a + 1, "push", "push")
             ELSE ~Has("push")

\* step i is a failed stash pop that follows a successful pull
FailedPopAfterPullAt(i) ==
    /\ cmds[i].cmd = "stash pop" /\ ~cmds[i].ok
    /\ \E j \in 1..(i - 1) : cmds[j].cmd = "pull" /\ cmds[j].ok

\* C38: in run_task_workflow and run_update_task_workflow, after a failed
\* stash pop that follows a successful pull, a re-check that reports pending
\* changes is followed by 'git add .' and 'git commit' (and the push when
\* configured and a commit was made)
C38_PopFailureDoesNotSuppressCommit ==
    \A i \in Idx :
        wf \in {"task", "update"} /\ FailedPopAfterPullAt(i) =>
            /\ NextIs(i, "status", "status_after")
            /\ (~Last(i) /\ cmds[i + 1].ok /\ cmds[i + 1].out)
                  => GoesOnToCommitAfter(i + 1)

C38_Witness ==
    /\ wf = "update"
    /\ pc = "done"
    /\ result = "True"
    /\ \E i \in Idx : FailedPopAfterPullAt(i)
    /\ cmds[Len(cmds)].cmd = "push"
    /\ cmds[Len(cmds) - 1].cmd = "commit"

\* a step that creates nothing, and that from a missing directory or a
\* non-repository is the return of failure
CreatesNothing ==
    /\ dirExists' = dirExists
    /\ isRepo' = isRepo
    /\ pc' # "init"
    /\ cmds' # cmds => cmds'[Len(cmds')].cmd # "init" /\ dirExists /\ isRepo
    /\ (~dirExists \/ ~isRepo)
          => cmds' = cmds /\ pc' = "done" /\ result' = "False"

\* C40: run_update_task_workflow and run_pull_workflow never create the
\* repository directory and never run 'git init'; when the path does not
\* exist or is not a git repository they return failure before any git command
C40_UpdateAndPullNeverCreate ==
    [][(wf \in {"update", "pull"}) => CreatesNothing]_vars

C40_Witness ==
    /\ wf \in {"update", "pull"}
    /\ args.initialize
    /\ dirExists /\ ~isRepo
    /\ pc = "done"
    /\ result = "False"
    /\ cmds = <<>>

\* a step that removes a stash entry removes one the run pushed
PopsOwnEntry ==
    Len(stashList') < Len(stashList) => Head(stashList).by = "run"

\* C36: with exclusive access to the repository, the stash entry removed by
\* a run's 'git stash pop' is the entry the same run pushed; an entry that
\* existed before the run started is never popped by the run
C36_PopsOnlyOwnEntry == [][PopsOwnEntry]_vars

\* the owners of the stash entries pushed and not yet popped during the first
\* n commands, newest first, if every pop removes the newest entry
RECURSIVE PushedAfter(_)
PushedAfter(n) ==
    IF n = 0 THEN <<>>
    ELSE LET s == PushedAfter(n - 1)
             c == cmds[n] IN
         IF c.cmd = "stash push" /\ c.rc = 0 /\ c.out THEN <<c.run>> \o s
         ELSE IF c.cmd = "stash pop" /\ c.ok /\ s # <<>> THEN Tail(s)
         ELSE s

\* the owner of the newest stash entry before command i
NewestBefore(i) ==
    IF PushedAfter(i - 1) = <<>> THEN "earlier" ELSE Head(PushedAfter(i - 1))

\* C37: no mutual exclusion on the repository: the runs interleave at
\* command boundaries and a run's stash pop removes the newest entry of the
\* repository, whichever run pushed it, so that it can remove the entry
\* created by the other run
C37_PopTakesNewestEntryOfAnyRun ==
    \A i \in Idx :
        (wf = "update" /\ DOMAIN pc = Runs /\ cmds[i].cmd = "stash pop"
            /\ cmds[i].ok)
        => cmds[i].popped = NewestBefore(i)

C37_Witness ==
    /\ DOMAIN pc = Runs
    /\ \E i \in Idx :
          /\ cmds[i].cmd = "stash pop" /\ cmds[i].ok
          /\ cmds[i].popped \in Runs \ {cmds[i].run}

====
